---- MODULE Spec2Model ----
(***************************************************************************)
(* Model of the ADPTX legal-research backend: the session registry of      *)
(* backend/main.py and the coordinator (LegalStrategist) of                *)
(* backend/orchestrator.py: query classification, dispatch to the PDF     *)
(* pipeline or to the reasoning team, conversation memory and statistics;  *)
(* and of the PDF agent (PDFRAGAgent) of backend/pdf_rag_agent.py: text    *)
(* extraction, chunking, relevance scoring, question answering, summaries. *)
(***************************************************************************)
EXTENDS Integers, Sequences, FiniteSets, TLC

VARIABLES
    \* LegalStrategist (backend/orchestrator.py)
    conversation_history,   \* self.conversation_history: list of records
    stats,                  \* self.stats
    last_laws,              \* self.last_laws
    last_cases,             \* self.last_cases
    last_analysis_type,     \* self.last_analysis_type
    pdf_agent,              \* self.pdf_agent is not None
    clock,                  \* time.time(), as a logical clock
    \* the most recent run_with_monitoring call
    request,                \* its arguments
    context,                \* what _analyze_query_context returned (or raised)
    outcome,                \* what the collaborator it called did
    dispatch,               \* how often it called team.run and the PDF agent
    result,                 \* what it returned (or that it raised)
    appended,               \* every record ever appended to the memory, in order
    enhanced_query,         \* what _build_enhanced_query returned, or None
    execution_times,        \* the execution times of the requests counted in
                            \* successful_queries, in order
    \* backend/main.py
    active_sessions,        \* active_sessions: session id -> {created, requests}
    system_metrics,         \* system_metrics counters
    environment,            \* the names of the environment variables that are set
    legal_strategist,       \* legal_strategist is not None
    LEGAL_RESEARCH_AVAILABLE,
    now,                    \* datetime.now(), in hours
    issued,                 \* session id -> the time create_session() returned it
    invalidated,            \* the ids validate_session has reported invalid after issue
    activity,               \* session id -> when it was last used, and whether it
                            \* has ever been idle for the timeout
    op,                     \* the most recent operation of the session registry
    response,               \* the most recent HTTP response of /api/chat
    request_times,          \* the execution times update_metrics was given with
                            \* a successful result, in order
    report,                 \* the most recent response of /api/health or /api/status
    in_flight,              \* the /api/chat requests waiting at the await of line
                            \* 391: request number -> its message and session id
    completed,              \* session id -> the requests chat_endpoint has completed
                            \* on it, in order
    \* PDFRAGAgent (backend/pdf_rag_agent.py)
    documents,              \* self.documents: document id -> stored document
    files,                  \* the PDF files on disk: path -> file
    PYMUPDF_AVAILABLE,
    PYPDF_AVAILABLE,
    pdf_clock,              \* datetime.now() of the PDF agent, as a logical clock
    pdf_call,               \* the most recent PDFRAGAgent.run_with_monitoring call
    pdf_result,             \* what it returned
    \* _create_chunks and _find_relevant_chunks applied on their own
    text,                   \* the text given to _create_chunks
    chunks,                 \* the chunks: what _create_chunks returned, or the
                            \* chunk list given to _find_relevant_chunks
    question,               \* the question given to _find_relevant_chunks
    relevant,               \* what _find_relevant_chunks returned
    applied                 \* the function that has been applied, or None

coordinator_vars ==
    <<conversation_history, stats, last_laws, last_cases, last_analysis_type,
      pdf_agent, clock, request, context, outcome, dispatch, result, appended,
      enhanced_query, execution_times>>

server_vars ==
    <<active_sessions, system_metrics, LEGAL_RESEARCH_AVAILABLE, now, issued,
      invalidated, activity, op, response, request_times, environment,
      legal_strategist, report,
                   in_flight, completed>>

pdf_vars ==
    <<documents, files, PYMUPDF_AVAILABLE, PYPDF_AVAILABLE, pdf_clock, pdf_call,
      pdf_result>>

function_vars == <<text, chunks, question, relevant, applied>>

vars == <<coordinator_vars, server_vars, pdf_vars, function_vars>>

(***************************************************************************)
(* Python values.                                                          *)
(***************************************************************************)
\* Python's None (an absent session id, an absent response content).
None == "<None>"

\* Python truthiness of an optional string: None and "" are falsy.
Truthy(s) == s # None /\ s # ""

(***************************************************************************)
(* Python floats holding averages of execution times, as exact fractions   *)
(* in lowest terms (the rounding of floating-point division is left out).  *)
(***************************************************************************)
RECURSIVE Gcd(_, _)
Gcd(a, b) == IF b = 0 THEN a ELSE Gcd(b, a % b)

\* n / d, for n >= 0 and d > 0.
Fraction(n, d) == [num |-> n \div Gcd(n, d), den |-> d \div Gcd(n, d)]

\* 0.0
Zero == [num |-> 0, den |-> 1]

RECURSIVE Sum(_)
Sum(seq) == IF seq = <<>> THEN 0 ELSE seq[1] + Sum(Tail(seq))

\* The arithmetic mean of a sequence of execution times; 0.0 when empty.
Mean(seq) == IF seq = <<>> THEN Zero ELSE Fraction(Sum(seq), Len(seq))

\* A running average that weighs the old average and the sample equally.
RunningAverageOfTwo(average, n, sample) ==
    Fraction(average.num + sample * average.den, average.den * 2)

\* (average * (n - 1) + sample) / n
RunningAverage(average, n, sample) ==
    Fraction(average.num * (n - 1) + sample * average.den, average.den * n)

(***************************************************************************)
(* Strings: str.lower(), the `in` substring test, str.split().             *)
(***************************************************************************)
UpperChars == "ABCDEFGHIJKLMNOPQRSTUVWXYZ"
LowerChars == "abcdefghijklmnopqrstuvwxyz"

LowerChar(c) ==
    IF \E i \in 1..Len(UpperChars) : SubSeq(UpperChars, i, i) = c
    THEN LET i == CHOOSE j \in 1..Len(UpperChars) : SubSeq(UpperChars, j, j) = c
         IN  SubSeq(LowerChars, i, i)
    ELSE c

\* s.lower(): every character lowered, one half of the string after the other.
RECURSIVE Lower(_)
Lower(s) ==
    IF Len(s) = 0 THEN ""
    ELSE IF Len(s) = 1 THEN LowerChar(s)
    ELSE LET half == Len(s) \div 2
         IN  Lower(SubSeq(s, 1, half)) \o Lower(SubSeq(s, half + 1, Len(s)))

\* sub in s
Contains(s, sub) ==
    \E i \in 0..(Len(s) - Len(sub)) : SubSeq(s, i + 1, i + Len(sub)) = sub

\* s.startswith(prefix)
StartsWith(s, prefix) ==
    Len(s) >= Len(prefix) /\ SubSeq(s, 1, Len(prefix)) = prefix

\* Whitespace, as str.strip() and str.split() see it.
IsSpace(c) == c \in {" ", "\n", "\t"}

\* The elements of a finite set of integers in ascending order.
RECURSIVE Ascending(_)
Ascending(S) ==
    IF S = {} THEN <<>>
    ELSE LET m == CHOOSE x \in S : \A y \in S : x <= y
         IN  <<m>> \o Ascending(S \ {m})

\* The indices at which a whitespace-free run of s starts, and ends.
WordStarts(s) ==
    {i \in 1..Len(s) : /\ ~IsSpace(SubSeq(s, i, i))
                       /\ (i = 1 \/ IsSpace(SubSeq(s, i - 1, i - 1)))}

WordEnds(s) ==
    {i \in 1..Len(s) : /\ ~IsSpace(SubSeq(s, i, i))
                       /\ (i = Len(s) \/ IsSpace(SubSeq(s, i + 1, i + 1)))}

\* s.split(): the maximal runs of non-whitespace characters, in order.
Split(s) ==
    LET starts == Ascending(WordStarts(s))
        ends   == Ascending(WordEnds(s))
    IN  [k \in 1..Len(starts) |-> SubSeq(s, starts[k], ends[k])]

\* s.split(sep): the pieces between the occurrences of sep, which are taken
\* from left to right and do not overlap.
RECURSIVE SplitOnFrom(_, _, _, _)
SplitOnFrom(s, sep, pos, marks) ==
    LET later == {i \in marks : i >= pos}
    IN  IF later = {} THEN <<SubSeq(s, pos, Len(s))>>
        ELSE LET m == CHOOSE x \in later : \A y \in later : x <= y
             IN  <<SubSeq(s, pos, m - 1)>> \o SplitOnFrom(s, sep, m + Len(sep), marks)

SplitOn(s, sep) ==
    SplitOnFrom(s, sep, 1,
                {i \in 1..(Len(s) - Len(sep) + 1) : SubSeq(s, i, i + Len(sep) - 1) = sep})

\* sep.join(seq)
RECURSIVE Join(_, _)
Join(seq, sep) ==
    IF Len(seq) = 0 THEN ""
    ELSE IF Len(seq) = 1 THEN seq[1]
    ELSE seq[1] \o sep \o Join(Tail(seq), sep)

\* s * n
RECURSIVE Repeat(_, _)
Repeat(s, n) ==
    IF n = 0 THEN ""
    ELSE IF n % 2 = 1 THEN s \o Repeat(s, n - 1)
    ELSE LET half == Repeat(s, n \div 2) IN half \o half

\* s.endswith(suffix)
EndsWith(s, suffix) ==
    Len(s) >= Len(suffix) /\ SubSeq(s, Len(s) - Len(suffix) + 1, Len(s)) = suffix

\* seq[:n]
Take(seq, n) == SubSeq(seq, 1, IF Len(seq) < n THEN Len(seq) ELSE n)

\* seq[-n:]
LastN(seq, n) == IF Len(seq) <= n THEN seq ELSE SubSeq(seq, Len(seq) - n + 1, Len(seq))

\* any(w in s for w in words)
AnyIn(words, s) == \E w \in words : Contains(s, w)

(***************************************************************************)
(* Requests.  A query is a Python string; the set below holds the queries  *)
(* of the specification's end-to-end scenarios, the synthetic queries the  *)
(* upload endpoints build, and queries exercising the classifier's rules.  *)
(***************************************************************************)
\* str(Path("uploads") / f"{uuid}_{filename}")
UploadPath == "uploads/1_a.pdf"

\* main.py upload_pdf: f"upload and process PDF file {file_path}"
UploadQuery(file_path) == "upload and process PDF file " \o file_path

\* main.py analyze_pdf_endpoint: f"{message}. Process PDF file: {file_path}"
AnalyzeQuery(message, file_path) == message \o ". Process PDF file: " \o file_path

PdfEndpointQueries == {UploadQuery(UploadPath), AnalyzeQuery("Key terms", UploadPath)}

ChatQueries ==
    { "What is Section 377 IPC?",
      "What about the punishment?",
      "Is there a case in uploads/1_a.pdf",
      "Is there a case and a law in uploads/1_a.pdf",
      "analyze uploads/1_a.pdf and the case",
      "summarize the document" }

Queries == ChatQueries \cup PdfEndpointQueries

\* The session ids (uuid4 strings) of the model.
SessionIds == {"s1", "s2"}

(***************************************************************************)
(* LegalStrategist._analyze_query_context                                  *)
(***************************************************************************)
follow_up_indicators ==
    { "what about", "and also", "additionally", "furthermore",
      "in addition", "moreover", "besides", "also", "too",
      "what else", "other", "different", "another", "similar",
      "related to", "regarding", "concerning", "about the",
      "for the same", "in the same", "similar case" }

pdf_indicators ==
    { "pdf", "document", "uploaded", "file", "contract", "agreement",
      "case study", "legal document", "upload", "analyze document",
      "what does the document say", "in the document", "from the document",
      "analyze this", "please analyze", "analyze the document",
      "pdf analysis request", "based on the following pdf content",
      "pdf content", "process pdf", "process file",
      "uploads\\", "uploads/", "explain", "summarize", "question", "answer" }

continuation_words == {"also", "and", "additionally", "furthermore"}

analyze_words == {"analyze", "analyze this", "please analyze", "what does", "summarize"}

law_keywords      == {"law", "statute", "act"}
case_keywords     == {"case", "precedent", "judgment"}
argument_keywords == {"argument", "strategy", "legal position"}

\* query.lower(), computed once per query of the model.
QueryLower == [q \in Queries |-> Lower(q)]

\* last_query.split()[:5] of a recorded query, lower-cased.
FirstWords == [q \in Queries |-> Take(Split(Lower(q)), 5)]

\* any(word in query_lower for word in last_query.split()[:5])
WordOverlap ==
    [q \in Queries, prev \in Queries |->
        \E i \in 1..Len(FirstWords[prev]) : Contains(QueryLower[q], FirstWords[prev][i])]

\* The keyword tests of the classifier that read the query alone.
QueryTests ==
    [q \in Queries |->
        [ follow_up    |-> AnyIn(follow_up_indicators, QueryLower[q]),
          law          |-> AnyIn(law_keywords, QueryLower[q]),
          case         |-> AnyIn(case_keywords, QueryLower[q]),
          argument     |-> AnyIn(argument_keywords, QueryLower[q]),
          path_marker  |-> Contains(q, "uploads") \/ Contains(QueryLower[q], "process"),
          indicator    |-> AnyIn(pdf_indicators, QueryLower[q]),
          continuation |-> AnyIn(continuation_words, QueryLower[q]),
          analyze      |-> AnyIn(analyze_words, QueryLower[q]) ]]

\* The context dictionary a classification starts from (lines 350-358).
DefaultContext ==
    [ needs_law_agent      |-> TRUE,
      needs_case_agent     |-> TRUE,
      needs_argument_agent |-> TRUE,
      needs_pdf_agent      |-> FALSE,
      is_follow_up         |-> FALSE,
      previous_context     |-> None,
      is_new_session       |-> TRUE,
      raised               |-> FALSE ]

\* The classification of (query, session_id) against a history.  The field
\* `raised` is TRUE when the function raises instead of returning: line 390
\* reads query_lower, which is bound only on the same-session path (line 381)
\* and otherwise not before line 420.  previous_context holds the timestamp
\* of the record the dictionary refers to.
AnalyzeContext(query, session_id, history, laws, cases, analysis_type, pdf_available) ==
    LET hasHistory  == history # <<>>
        last        == history[Len(history)]
        checked     == Truthy(session_id) /\ hasHistory
        same        == checked /\ last.session_id = session_id
        t           == QueryTests[query]
        \* lines 380-385
        newSession  == ~same
        indicatorFU == ~newSession /\ t.follow_up
        \* lines 388-392
        lastWords   == IF hasHistory THEN FirstWords[last.query] ELSE <<>>
        unbound     == hasHistory /\ newSession /\ lastWords # <<>>
        overlap     == hasHistory /\ ~newSession /\ WordOverlap[query, last.query]
        followUp    == indicatorFU \/ overlap
        \* lines 395-408
        law1  == IF t.law THEN TRUE ELSE IF followUp /\ laws # <<>> THEN FALSE ELSE TRUE
        case1 == IF t.case THEN TRUE ELSE IF followUp /\ cases # <<>> THEN FALSE ELSE TRUE
        arg1  == IF t.argument THEN TRUE
                 ELSE IF followUp /\ analysis_type = "argument" THEN FALSE ELSE TRUE
        \* lines 423-442
        pdf   == t.path_marker \/ t.indicator
        keep  == ~pdf \/ t.continuation
        \* lines 445-451
        special == pdf /\ pdf_available /\ t.analyze
    IN  IF checked /\ ~same
        THEN DefaultContext                                   \* line 368
        ELSE IF unbound
        THEN [DefaultContext EXCEPT !.raised = TRUE]          \* line 390
        ELSE [ needs_law_agent      |-> law1 /\ keep /\ ~special,
               needs_case_agent     |-> case1 /\ keep /\ ~special,
               needs_argument_agent |-> arg1 /\ keep /\ ~special,
               needs_pdf_agent      |-> pdf,
               is_follow_up         |-> followUp,
               previous_context     |-> IF overlap THEN last.timestamp ELSE None,
               is_new_session       |-> newSession,
               raised               |-> FALSE ]

(***************************************************************************)
(* LegalStrategist._build_enhanced_query                                   *)
(***************************************************************************)
\* The length of the excerpt of the previous response (line 807).
excerpt_length == 500

\* Lines 806-812: the text that embeds the record `previous`.
WithPreviousAnalysis(query, previous) ==
    "\nPrevious Query: " \o previous.query
        \o "\nPrevious Analysis: " \o Take(previous.response, excerpt_length)
        \o "...\n\nCurrent Query: " \o query
        \o "\n\nPlease provide a response that builds upon the previous analysis"
        \o " and addresses the new aspects of this query.\n"

\* Lines 815-824: the note on the agents the context has disabled.
AgentInstructions(ctx) ==
    LET instructions ==
            (IF ~ctx.needs_law_agent
             THEN <<"Use previously retrieved laws if still relevant.">> ELSE <<>>)
            \o (IF ~ctx.needs_case_agent
                THEN <<"Reference previously found cases if applicable.">> ELSE <<>>)
            \o (IF ~ctx.needs_argument_agent
                THEN <<"Build upon previous arguments if relevant.">> ELSE <<>>)
    IN  IF instructions = <<>> THEN ""
        ELSE "\n\nNote: " \o Join(instructions, ", ")

\* Line 807 raises TypeError when the record it embeds holds no response
\* (None[:500]).
EnhancedQueryRaises(ctx, history) ==
    /\ ctx.is_follow_up
    /\ history # <<>>
    /\ history[Len(history)].response = None

\* _build_enhanced_query embedding the last record whether or not the
\* request is a follow-up.
BuildEnhancedQueryFromLastRecord(query, ctx, history) ==
    (IF history # <<>> /\ history[Len(history)].response # None
     THEN WithPreviousAnalysis(query, history[Len(history)])
     ELSE query) \o AgentInstructions(ctx)

\* _build_enhanced_query(query, context), where it does not raise.
BuildEnhancedQuery(query, ctx, history) ==
    (IF ctx.is_follow_up /\ history # <<>>
     THEN WithPreviousAnalysis(query, history[Len(history)])
     ELSE query) \o AgentInstructions(ctx)

(***************************************************************************)
(* LegalStrategist: conversation memory                                    *)
(***************************************************************************)
\* The number of records _update_conversation_memory keeps.
MemoryLimit == 10

\* The entry _update_conversation_memory builds (lines 457-469).
ConversationEntry(query, response_content, ctx, session_id, timestamp) ==
    [ timestamp  |-> timestamp,
      query      |-> query,
      response   |-> response_content,
      context    |-> ctx,
      session_id |-> session_id,
      agents_called |->
          [ law_agent      |-> ctx.needs_law_agent,
            case_agent     |-> ctx.needs_case_agent,
            argument_agent |-> ctx.needs_argument_agent,
            pdf_agent      |-> ctx.needs_pdf_agent ] ]

\* UpdatedHistory with the slice taken from the wrong end (h[:10]).
UpdatedHistoryKeepsFirst(history, entry) ==
    LET h == Append(history, entry)
    IN  IF Len(h) > MemoryLimit THEN SubSeq(h, 1, MemoryLimit) ELSE h

\* Lines 471-475: append, then keep the last MemoryLimit records.
UpdatedHistory(history, entry) ==
    LET h == Append(history, entry)
    IN  IF Len(h) > MemoryLimit THEN LastN(h, MemoryLimit) ELSE h

\* Lines 478-480: count the agents the entry names.
UpdatedAgentsCalled(called, entry) ==
    [a \in DOMAIN called |-> IF entry.agents_called[a] THEN called[a] + 1 ELSE called[a]]

(***************************************************************************)
(* LegalStrategist._format_response_with_memory                            *)
(* The response texts of the model hold none of the boilerplate markers    *)
(* the pattern removals of lines 837-865 and 875-877 look for, so those    *)
(* leave them as they are; what acts on them is the strip, the heading     *)
(* test of lines 871-872 and the heading-marker removal of line 892.       *)
(***************************************************************************)
RECURSIVE LStrip(_)
LStrip(s) == IF Len(s) > 0 /\ IsSpace(SubSeq(s, 1, 1)) THEN LStrip(SubSeq(s, 2, Len(s))) ELSE s

RECURSIVE RStrip(_)
RStrip(s) ==
    IF Len(s) > 0 /\ IsSpace(SubSeq(s, Len(s), Len(s)))
    THEN RStrip(SubSeq(s, 1, Len(s) - 1)) ELSE s

\* s.strip()
Strip(s) == RStrip(LStrip(s))

\* The first index >= i of s whose character is not in the class, or Len(s)+1.
RECURSIVE SkipWhile(_, _, _)
SkipWhile(s, i, class) ==
    IF i <= Len(s) /\ SubSeq(s, i, i) \in class THEN SkipWhile(s, i + 1, class) ELSE i

\* re.sub(r'^#+\s*', '', content, flags=re.MULTILINE)
RECURSIVE RemoveHeadingMarks(_, _)
RemoveHeadingMarks(s, i) ==
    IF i > Len(s) THEN ""
    ELSE IF (i = 1 \/ SubSeq(s, i - 1, i - 1) = "\n") /\ SubSeq(s, i, i) = "#"
         THEN RemoveHeadingMarks(s, SkipWhile(s, SkipWhile(s, i, {"#"}), {" ", "\n", "\t"}))
         ELSE SubSeq(s, i, i) \o RemoveHeadingMarks(s, i + 1)

\* _enhance_markdown_formatting
EnhanceMarkdownFormatting(content) == RemoveHeadingMarks(content, 1)

\* _format_response_with_memory
FormatResponseWithMemory(response_content) ==
    LET stripped == Strip(response_content)
        headed   == IF StartsWith(stripped, "#") THEN stripped
                    ELSE "# Legal Research Analysis\n\n" \o stripped
    IN  EnhanceMarkdownFormatting(headed)

(***************************************************************************)
(* The collaborators of run_with_monitoring: the reasoning team (team.run) *)
(* and the PDF agent (pdf_agent.run_with_monitoring).                      *)
(***************************************************************************)
\* run_with_monitoring's max_retries (its default; no caller passes another).
max_retries == 3

TeamText == "Section 377 IPC punishes unnatural offences."
\* A response the team has given a second-level heading of its own.
TeamHeadedText == "## Offence\nSection 377 IPC."
PdfText  == "PDF processed successfully!"
PdfError == "PDF file not found"
\* str(e) of an exception of the model client, and of one of the PDF agent.
TeamException == "Error code: 401 - Invalid API Key"
PdfException == "[Errno 13] Permission denied: '/srv/adptx/uploads/1_a.pdf'"

\* What the team does when dispatched: its first `fails` dispatches raise,
\* the next one returns a response whose content is `content` (a text, or
\* None: the response's content is optional).
\* It takes `seconds` to do so, and an exception it raises has the message
\* `exception`.
TeamOutcomes ==
    { [ agent |-> "team", fails |-> f, content |-> TeamText, status |-> None,
        seconds |-> 1, exception |-> TeamException ] : f \in 0..max_retries }
    \cup { [ agent |-> "team", fails |-> 0, content |-> c, status |-> None,
              seconds |-> 1, exception |-> TeamException ] :
              c \in {TeamHeadedText, None} }

\* What the PDF agent does when called: it returns a result with status
\* success or error, or raises.
PdfOutcomes ==
    { [ agent |-> "pdf", fails |-> 0, content |-> PdfText, status |-> st,
        seconds |-> 1, exception |-> PdfException ] :
          st \in {"success", "error", "raise"} }

NoOutcome ==
    [ agent |-> None, fails |-> 0, content |-> None, status |-> None,
      seconds |-> 0, exception |-> None ]

\* TRUE when the team's n-th dispatch of a request raises.
DispatchRaises(o, n) == n <= o.fails

(***************************************************************************)
(* What run_with_monitoring hands back.                                    *)
(***************************************************************************)
\* A key the result dictionary does not hold.
Absent == "<absent>"

SuccessResult(content, attempts, analysis_type) ==
    [ status |-> "success", content |-> content, error |-> Absent,
      attempts |-> attempts, analysis_type |-> analysis_type ]

ErrorResult(error, attempts) ==
    [ status |-> "error", content |-> Absent, error |-> error,
      attempts |-> attempts, analysis_type |-> Absent ]

\* The call did not return: the exception left run_with_monitoring.
Raised(exception) ==
    [ status |-> "raised", content |-> Absent, error |-> exception,
      attempts |-> 0, analysis_type |-> Absent ]

NoResult ==
    [ status |-> None, content |-> Absent, error |-> Absent,
      attempts |-> 0, analysis_type |-> Absent ]

(***************************************************************************)
(* LegalStrategist.run_with_monitoring                                     *)
(***************************************************************************)
\* Lines 510-515 and 576-581: a success is counted and its execution time
\* enters the average; then _update_conversation_memory counts the agents.
CountSuccess(counted, entry, execution_time) ==
    [counted EXCEPT
        !.successful_queries = @ + 1,
        !.average_response_time =
            RunningAverage(@, counted.successful_queries + 1, execution_time),
        !.agents_called = UpdatedAgentsCalled(@, entry)]

\* Line 491 raised: the exception leaves run_with_monitoring, which has
\* counted the query (line 486) and done nothing else.
ClassificationRaises(counted) ==
    /\ stats' = counted
    /\ outcome' = NoOutcome
    /\ dispatch' = [team |-> 0, pdf |-> 0]
    /\ result' = Raised("NameError")
    /\ enhanced_query' = None
    /\ UNCHANGED <<conversation_history, appended, execution_times>>

\* Line 494 raised: the same, one statement later.
EnhancementRaises(counted) ==
    /\ stats' = counted
    /\ outcome' = NoOutcome
    /\ dispatch' = [team |-> 0, pdf |-> 0]
    /\ result' = Raised("TypeError")
    /\ enhanced_query' = None
    /\ UNCHANGED <<conversation_history, appended, execution_times>>

\* PdfAnalysis falling through to the retry loop when the pipeline fails.
PdfAnalysisFallsThrough(query, session_id, ctx, counted, o) ==
    /\ outcome' = o
    /\ IF o.status = "success"
       THEN LET entry == ConversationEntry(query, o.content, ctx, session_id, clock')
            IN  /\ dispatch' = [team |-> 0, pdf |-> 1]
                /\ stats' = CountSuccess(counted, entry, o.seconds)
                /\ execution_times' = Append(execution_times, o.seconds)
                /\ conversation_history' = UpdatedHistory(conversation_history, entry)
                /\ appended' = Append(appended, entry)
                /\ result' = SuccessResult(o.content, 1, "pdf")
       ELSE /\ dispatch' = [team |-> 1, pdf |-> 1]
            /\ stats' = counted
            /\ UNCHANGED <<conversation_history, appended, execution_times>>
            /\ result' = Raised(TeamException)

\* PdfAnalysis recording the failed request in the memory.
PdfAnalysisRecordsFailure(query, session_id, ctx, counted, o) ==
    LET entry == ConversationEntry(query, o.content, ctx, session_id, clock')
    IN  /\ outcome' = o
        /\ dispatch' = [team |-> 0, pdf |-> 1]
        /\ stats' = IF o.status = "success"
                    THEN CountSuccess(counted, entry, o.seconds)
                    ELSE counted
        /\ execution_times' = IF o.status = "success"
                              THEN Append(execution_times, o.seconds)
                              ELSE execution_times
        /\ conversation_history' = UpdatedHistory(conversation_history, entry)
        /\ appended' = Append(appended, entry)
        /\ result' = IF o.status = "success" THEN SuccessResult(o.content, 1, "pdf")
                     ELSE ErrorResult(PdfError, 1)

\* Lines 499-565: the PDF agent is called once; o is what it does.
PdfAnalysis(query, session_id, ctx, counted, o) ==
    /\ outcome' = o
    /\ dispatch' = [team |-> 0, pdf |-> 1]
    /\ IF o.status = "success"
       THEN LET entry == ConversationEntry(query, o.content, ctx, session_id, clock')
            IN  /\ stats' = CountSuccess(counted, entry, o.seconds)
                /\ execution_times' = Append(execution_times, o.seconds)
                /\ conversation_history' = UpdatedHistory(conversation_history, entry)
                /\ appended' = Append(appended, entry)
                /\ result' = SuccessResult(o.content, 1, "pdf")
       ELSE /\ stats' = counted
            /\ UNCHANGED <<conversation_history, appended, execution_times>>
            /\ result' = IF o.status = "error"
                         THEN ErrorResult(PdfError, 1)                       \* line 551
                         ELSE ErrorResult("PDF analysis failed: " \o o.exception, 1) \* line 560

\* Lines 569-598, the body of the retry loop for one value of `attempt`
\* (counted from 0, as range() does); o is what the team does.
TeamAttempt(query, session_id, ctx, counted, o, attempt) ==
    /\ outcome' = o
    /\ dispatch' = [team |-> attempt + 1, pdf |-> 0]
    /\ IF DispatchRaises(o, attempt + 1)
       THEN \* line 571 raises; no handler encloses it
            /\ stats' = counted
            /\ UNCHANGED <<conversation_history, appended, execution_times>>
            /\ result' = Raised(o.exception)
       ELSE LET entry == ConversationEntry(query, o.content, ctx, session_id, clock')
            IN  /\ stats' = CountSuccess(counted, entry, o.seconds)
                /\ execution_times' = Append(execution_times, o.seconds)
                /\ conversation_history' = UpdatedHistory(conversation_history, entry)
                /\ appended' = Append(appended, entry)
                /\ result' = IF o.content = None
                             THEN Raised("TypeError")     \* re.sub on None, line 837
                             ELSE SuccessResult(FormatResponseWithMemory(o.content),
                                                attempt + 1, Absent)

\* Lines 600-609.
AllAttemptsFailed(counted, o) ==
    /\ outcome' = o
    /\ dispatch' = [team |-> 0, pdf |-> 0]
    /\ stats' = [counted EXCEPT !.failed_queries = @ + 1]
    /\ UNCHANGED <<conversation_history, appended, execution_times>>
    /\ result' = ErrorResult("All retry attempts failed", max_retries)

\* Lines 568-609.  Every path through the loop body leaves the function (the
\* return of line 591, or an exception), so the body runs for attempt 0 only,
\* and the code after the loop runs only when range(max_retries) is empty.
TeamDispatch(query, session_id, ctx, counted, o) ==
    IF 0 < max_retries
    THEN TeamAttempt(query, session_id, ctx, counted, o, 0)
    ELSE AllAttemptsFailed(counted, o)

\* team and pdf are what the reasoning team and the PDF agent do if this
\* call reaches them.
RunWithMonitoring(query, session_id, team, pdf) ==
    LET counted == [stats EXCEPT !.total_queries = @ + 1]
        ctx == AnalyzeContext(query, session_id, conversation_history,
                              last_laws, last_cases, last_analysis_type, pdf_agent)
    IN  /\ clock' = clock + 1
        /\ request' = [query |-> query, session_id |-> session_id]
        /\ context' = ctx
        /\ UNCHANGED <<last_laws, last_cases, last_analysis_type, pdf_agent>>
        /\ IF ctx.raised
           THEN ClassificationRaises(counted)
           ELSE IF EnhancedQueryRaises(ctx, conversation_history)
           THEN EnhancementRaises(counted)
           ELSE /\ enhanced_query' = BuildEnhancedQuery(query, ctx, conversation_history)
                /\ IF ctx.needs_pdf_agent /\ pdf_agent
                   THEN PdfAnalysis(query, session_id, ctx, counted, pdf)
                   ELSE TeamDispatch(query, session_id, ctx, counted, team)

(***************************************************************************)
(* backend/main.py: the session registry                                   *)
(***************************************************************************)
\* session_timeout = timedelta(hours=2), in hours.
session_timeout == 2

EmptyMap == [k \in {} |-> None]

\* d[k] = v
Put(d, k, v) == [x \in DOMAIN d \cup {k} |-> IF x = k THEN v ELSE d[x]]

\* del d[k] for every k of ks
Remove(d, ks) == [x \in DOMAIN d \ ks |-> d[x]]

\* SessionExpired with the comparison turned round.
SessionExpiredInverted(session_data, current_time) ==
    current_time - session_data.created < session_timeout

\* The expiry test of validate_session (line 98).
SessionExpired(session_data, current_time) ==
    current_time - session_data.created > session_timeout

\* What validate_session(session_id) returns at current_time.
ValidateReturn(sessions, session_id, current_time) ==
    /\ session_id \in DOMAIN sessions
    /\ ~SessionExpired(sessions[session_id], current_time)

\* active_sessions after validate_session(session_id): an expired entry is
\* deleted (line 99).
ValidateEffect(sessions, session_id, current_time) ==
    IF session_id \in DOMAIN sessions /\ SessionExpired(sessions[session_id], current_time)
    THEN Remove(sessions, {session_id})
    ELSE sessions

\* ExpiredSessions with >= for >: a sweep one boundary case stricter than
\* validate_session.
ExpiredSessionsInclusive(sessions, current_time) ==
    {id \in DOMAIN sessions : current_time - sessions[id].created >= session_timeout}

\* The expired_sessions list of cleanup_expired_sessions (lines 116-119).
ExpiredSessions(sessions, current_time) ==
    {id \in DOMAIN sessions : current_time - sessions[id].created > session_timeout}

\* active_sessions after cleanup_expired_sessions (lines 121-122).
SweepResult(sessions, current_time) ==
    Remove(sessions, ExpiredSessions(sessions, current_time))

\* str(uuid.uuid4()): an id no earlier call returned.
FreshIds == SessionIds \ DOMAIN issued
NewSessionId == CHOOSE id \in FreshIds : TRUE

\* The entry create_session stores (lines 107-110).
NewSession(current_time) == [created |-> current_time, requests |-> 0]

\* The ids a validate_session call reports invalid after they were issued.
Invalidated(session_id) ==
    IF session_id \in DOMAIN issued /\ ~ValidateReturn(active_sessions, session_id, now)
    THEN invalidated \cup {session_id}
    ELSE invalidated

\* validate_session(session_id), called on its own.
ValidateSession(session_id) ==
    /\ active_sessions' = ValidateEffect(active_sessions, session_id, now)
    /\ invalidated' = Invalidated(session_id)
    /\ op' = [ name |-> "validate", id |-> session_id,
               valid |-> ValidateReturn(active_sessions, session_id, now), swept |-> {} ]
    /\ UNCHANGED <<system_metrics, LEGAL_RESEARCH_AVAILABLE, now, issued, activity, response,
                   request_times, environment, legal_strategist, report,
                   in_flight, completed>>

\* create_session(), called on its own.
CreateSession ==
    /\ FreshIds # {}
    /\ active_sessions' = Put(active_sessions, NewSessionId, NewSession(now))
    /\ issued' = Put(issued, NewSessionId, now)
    /\ activity' = Put(activity, NewSessionId, [last |-> now, idle |-> FALSE])
    /\ op' = [name |-> "create", id |-> NewSessionId, valid |-> TRUE, swept |-> {}]
    /\ UNCHANGED <<system_metrics, LEGAL_RESEARCH_AVAILABLE, now, invalidated, response,
                   request_times, environment, legal_strategist, report,
                   in_flight, completed>>

\* cleanup_expired_sessions(), which session_cleanup_task runs every five
\* minutes: it has no await inside, so it runs as one step.
CleanupExpiredSessions ==
    /\ active_sessions' = SweepResult(active_sessions, now)
    /\ op' = [ name |-> "cleanup", id |-> None, valid |-> FALSE,
               swept |-> ExpiredSessions(active_sessions, now) ]
    /\ UNCHANGED <<system_metrics, LEGAL_RESEARCH_AVAILABLE, now, issued, invalidated,
                   activity, response, request_times,
                   environment, legal_strategist, report,
                   in_flight, completed>>

\* The number of hours a behaviour lasts.
MaxTime == 3

\* An hour passes.  A session unused for the timeout has been idle.
Tick ==
    /\ now < MaxTime
    /\ now' = now + 1
    /\ activity' = [id \in DOMAIN activity |->
                       [activity[id] EXCEPT
                           !.idle = @ \/ now + 1 - activity[id].last >= session_timeout]]
    /\ UNCHANGED <<active_sessions, system_metrics, LEGAL_RESEARCH_AVAILABLE, issued,
                   invalidated, op, response, request_times,
                   environment, legal_strategist, report,
                   in_flight, completed>>

(***************************************************************************)
(* backend/main.py: initialize_ai_systems                                  *)
(***************************************************************************)
required_env_vars == {"GROQ_API_KEY", "INDIAN_KANOON_API_KEY"}

\* initialize_ai_systems without the reset of lines 165-166.
InitializeAiSystemsIgnoringKeys(env, constructs) ==
    [legal_strategist |-> constructs, LEGAL_RESEARCH_AVAILABLE |-> constructs]

\* The globals after initialize_ai_systems; `constructs` is FALSE when the
\* import of the orchestrator or LegalStrategist() raises (lines 152-162).
InitializeAiSystems(env, constructs) ==
    LET missing_vars == required_env_vars \ env
    IN  [ legal_strategist |-> constructs,
          LEGAL_RESEARCH_AVAILABLE |-> IF missing_vars # {} THEN FALSE ELSE constructs ]

\* The test of process_legal_research (line 295), negated.
Available == LEGAL_RESEARCH_AVAILABLE /\ legal_strategist

(***************************************************************************)
(* backend/main.py: update_metrics, process_legal_research, chat_endpoint  *)
(***************************************************************************)
\* update_metrics, the request counters (lines 69-75).
UpdatedMetrics(metrics, status) ==
    [metrics EXCEPT
        !.total_requests = @ + 1,
        !.successful_requests = IF status = "success" THEN @ + 1 ELSE @,
        !.failed_requests = IF status = "success" THEN @ ELSE @ + 1]

\* update_metrics(result, execution_time), lines 69-82: the average is
\* recomputed on every call, from the count of successful requests.
UpdateMetrics(metrics, status, execution_time) ==
    LET counted == UpdatedMetrics(metrics, status)
        total_successful == counted.successful_requests
    IN  [counted EXCEPT
            !.average_response_time =
                IF total_successful > 0
                THEN RunningAverage(@, total_successful, execution_time)
                ELSE Fraction(execution_time, 1)]

\* The execution times update_metrics has been given with a successful result.
RecordedTimes(times, status, execution_time) ==
    IF status = "success" THEN Append(times, execution_time) ELSE times

\* What process_legal_research returns once the coordinator has run (lines
\* 304-315): its result, or an error result made of the exception it raised.
ResearchResult(r) ==
    IF r.status = "raised" THEN ErrorResult(r.error, Absent) ELSE r

UnavailableResult ==
    ErrorResult("Legal research system not available. Please check if "
                    \o "ai_systems.orchestrator is properly installed.", Absent)

\* The number of /api/chat requests received so far.
Received == system_metrics.total_requests + Cardinality(DOMAIN in_flight)

\* The requests completed on a session, with one more.
Completed(done, session_id, number) ==
    Put(done, session_id,
        IF session_id \in DOMAIN done THEN Append(done[session_id], number)
        ELSE <<number>>)

\* POST /api/chat.  The handler has no await that suspends (the coordinator
\* is called synchronously), so it runs as one step.
ChatEndpoint(message, session_in, team, pdf) ==
    LET valid      == Truthy(session_in) /\ ValidateReturn(active_sessions, session_in, now)
        validated  == IF Truthy(session_in)
                      THEN ValidateEffect(active_sessions, session_in, now)
                      ELSE active_sessions
        session_id == IF valid THEN session_in ELSE NewSessionId          \* lines 385-389
        sessions   == IF valid THEN validated
                      ELSE Put(validated, session_id, NewSession(now))
    IN  /\ valid \/ FreshIds # {}
        /\ IF Available
           THEN RunWithMonitoring(message, session_id, team, pdf)
           ELSE UNCHANGED coordinator_vars
        /\ LET research == IF Available
                           THEN ResearchResult(result')
                           ELSE UnavailableResult
               \* time.time() - start_time (line 394): the time the
               \* collaborator took, if one was called.
               execution_time == IF Available THEN outcome'.seconds ELSE 0
           IN  /\ system_metrics' =
                     [UpdateMetrics(system_metrics, research.status, execution_time) EXCEPT
                         !.feature_usage.legal_research = @ + 1]
               /\ request_times' =
                     RecordedTimes(request_times, research.status, execution_time)
               /\ response' = [ status     |-> research.status,
                                session_id |-> session_id,
                                message    |-> IF research.status = "success"
                                               THEN research.content ELSE research.error,
                                error      |-> research.error ]
        /\ active_sessions' = [sessions EXCEPT ![session_id].requests = @ + 1]  \* line 400
        /\ issued' = IF valid THEN issued ELSE Put(issued, session_id, now)
        /\ invalidated' = IF Truthy(session_in) THEN Invalidated(session_in) ELSE invalidated
        /\ activity' = Put(activity, session_id,
                           [ last |-> now,
                             idle |-> session_id \in DOMAIN activity
                                         /\ activity[session_id].idle ])
        /\ op' = [name |-> "chat", id |-> session_id, valid |-> valid, swept |-> {}]
        /\ completed' = Completed(completed, session_id, Received + 1)
        /\ UNCHANGED <<LEGAL_RESEARCH_AVAILABLE, now, environment, legal_strategist, report,
                       in_flight>>

(***************************************************************************)
(* backend/main.py: chat_endpoint under concurrent requests.  The handler  *)
(* is a coroutine with one await (line 391); the steps below let other     *)
(* requests and the sweep run while a request is at that await.            *)
(***************************************************************************)
\* Line 400 without the membership test of line 399.
CountRequestUnguarded(sessions, session_id) ==
    IF session_id \in DOMAIN sessions
    THEN [ sessions |-> [sessions EXCEPT ![session_id].requests = @ + 1],
           raised |-> FALSE ]
    ELSE [sessions |-> sessions, raised |-> TRUE]

\* Lines 399-400: the session's counter is incremented if the session is
\* still registered; `raised` tells whether the statement raised KeyError.
CountRequest(sessions, session_id) ==
    [ sessions |-> IF session_id \in DOMAIN sessions
                   THEN [sessions EXCEPT ![session_id].requests = @ + 1]
                   ELSE sessions,
      raised |-> FALSE ]

\* Lines 379-389: the request is received, and its session is validated or
\* created; the handler then waits at line 391.
ChatReceive(message, session_in) ==
    LET valid      == Truthy(session_in) /\ ValidateReturn(active_sessions, session_in, now)
        validated  == IF Truthy(session_in)
                      THEN ValidateEffect(active_sessions, session_in, now)
                      ELSE active_sessions
        session_id == IF valid THEN session_in ELSE NewSessionId
    IN  /\ valid \/ FreshIds # {}
        /\ active_sessions' = IF valid THEN validated
                              ELSE Put(validated, session_id, NewSession(now))
        /\ in_flight' = Put(in_flight, Received + 1,
                            [message |-> message, session_id |-> session_id])
        /\ issued' = IF valid THEN issued ELSE Put(issued, session_id, now)
        /\ invalidated' = IF Truthy(session_in) THEN Invalidated(session_in) ELSE invalidated
        /\ activity' = Put(activity, session_id,
                           [ last |-> now,
                             idle |-> session_id \in DOMAIN activity
                                         /\ activity[session_id].idle ])
        /\ op' = [name |-> "receive", id |-> session_id, valid |-> valid, swept |-> {}]
        /\ UNCHANGED <<system_metrics, LEGAL_RESEARCH_AVAILABLE, now, response, request_times,
                       environment, legal_strategist, report, completed>>
        /\ UNCHANGED coordinator_vars

\* Lines 391-422: the request `number` is processed and answered.  An
\* exception in lines 391-400 takes the handler of lines 412-422.
ChatComplete(number, team, pdf) ==
    LET message    == in_flight[number].message
        session_id == in_flight[number].session_id
        counted    == CountRequest(active_sessions, session_id)
    IN  /\ IF Available
           THEN RunWithMonitoring(message, session_id, team, pdf)
           ELSE UNCHANGED coordinator_vars
        /\ LET research == IF Available
                           THEN ResearchResult(result')
                           ELSE UnavailableResult
               execution_time == IF Available THEN outcome'.seconds ELSE 0
               updated == [UpdateMetrics(system_metrics, research.status, execution_time)
                              EXCEPT !.feature_usage.legal_research = @ + 1]
           IN  /\ system_metrics' = IF counted.raised
                                    THEN UpdateMetrics(updated, "error", execution_time)
                                    ELSE updated
               /\ request_times' =
                     RecordedTimes(request_times, research.status, execution_time)
               /\ response' = IF counted.raised
                               THEN [ status |-> "error", session_id |-> None,
                                      message |-> "Internal server error",
                                      error |-> "KeyError" ]
                               ELSE [ status     |-> research.status,
                                      session_id |-> session_id,
                                      message    |-> IF research.status = "success"
                                                     THEN research.content
                                                     ELSE research.error,
                                      error      |-> research.error ]
        /\ active_sessions' = counted.sessions
        /\ in_flight' = Remove(in_flight, {number})
        /\ completed' = Completed(completed, session_id, number)
        /\ op' = [name |-> "chat", id |-> session_id, valid |-> TRUE, swept |-> {}]
        /\ UNCHANGED <<LEGAL_RESEARCH_AVAILABLE, now, issued, invalidated, activity,
                       environment, legal_strategist, report>>

(***************************************************************************)
(* backend/main.py: health_check, system_status; get_statistics            *)
(***************************************************************************)
\* LegalStrategist.get_statistics: the numbers it reports, before they are
\* formatted.
GetStatistics ==
    [ total_queries |-> stats.total_queries,
      successful_queries |-> stats.successful_queries,
      failed_queries |-> stats.failed_queries,
      average_response_time |-> stats.average_response_time,
      agents_called |-> stats.agents_called,
      conversation_memory |-> Len(conversation_history) ]

NoReport ==
    [ endpoint |-> None, status |-> None, legal_research |-> FALSE,
      missing |-> {}, warnings |-> <<>>, statistics |-> Absent ]

\* What GET /api/health returns.
HealthStatus ==
    [ endpoint |-> "health",
      status |-> IF ~LEGAL_RESEARCH_AVAILABLE THEN "degraded" ELSE "healthy",
      legal_research |-> LEGAL_RESEARCH_AVAILABLE,
      missing |-> required_env_vars \ environment,
      warnings |-> IF ~LEGAL_RESEARCH_AVAILABLE
                   THEN <<"Legal research system not available">> ELSE <<>>,
      statistics |-> [ total_requests |-> system_metrics.total_requests,
                       successful_requests |-> system_metrics.successful_requests,
                       failed_requests |-> system_metrics.failed_requests,
                       average_response_time |-> system_metrics.average_response_time ] ]

\* What GET /api/status returns.
StatusReport ==
    [ endpoint |-> "status",
      status |-> "running",
      legal_research |-> LEGAL_RESEARCH_AVAILABLE,
      missing |-> {},
      warnings |-> <<>>,
      statistics |-> [ api_requests |-> system_metrics,
                       legal_research |-> IF Available THEN GetStatistics ELSE Absent,
                       active_sessions |-> Cardinality(DOMAIN active_sessions) ] ]

\* health_check counting itself as a request.
HealthCheckCounted ==
    /\ report' = HealthStatus
    /\ op' = [name |-> "health", id |-> None, valid |-> FALSE, swept |-> {}]
    /\ system_metrics' = [system_metrics EXCEPT !.total_requests = @ + 1]
    /\ UNCHANGED <<active_sessions, LEGAL_RESEARCH_AVAILABLE, now, issued, invalidated,
                   activity, response, request_times, environment,
                   legal_strategist, in_flight, completed>>
    /\ UNCHANGED <<coordinator_vars, pdf_vars, function_vars>>

\* GET /api/health
HealthCheck ==
    /\ report' = HealthStatus
    /\ op' = [name |-> "health", id |-> None, valid |-> FALSE, swept |-> {}]
    /\ UNCHANGED <<active_sessions, system_metrics, LEGAL_RESEARCH_AVAILABLE, now, issued,
                   invalidated, activity, response, request_times, environment,
                   legal_strategist, in_flight, completed>>
    /\ UNCHANGED <<coordinator_vars, pdf_vars, function_vars>>

\* GET /api/status
SystemStatus ==
    /\ report' = StatusReport
    /\ op' = [name |-> "status", id |-> None, valid |-> FALSE, swept |-> {}]
    /\ UNCHANGED <<active_sessions, system_metrics, LEGAL_RESEARCH_AVAILABLE, now, issued,
                   invalidated, activity, response, request_times, environment,
                   legal_strategist, in_flight, completed>>
    /\ UNCHANGED <<coordinator_vars, pdf_vars, function_vars>>

(***************************************************************************)
(* PDFRAGAgent._create_chunks                                              *)
(***************************************************************************)
\* self.chunk_size
chunk_size == 1000

\* The length below which a paragraph is skipped (line 441).
min_paragraph_length == 50

\* Lines 449-458: the words of a long paragraph are packed into chunks; i is
\* the index of the word the loop is at.
RECURSIVE PackWords(_, _, _, _)
PackWords(words, i, current_chunk, packed) ==
    IF i > Len(words)
    THEN IF current_chunk # "" THEN Append(packed, Strip(current_chunk)) ELSE packed
    ELSE LET word == words[i]
         IN  IF Len(current_chunk) + 1 + Len(word) <= chunk_size
             THEN PackWords(words, i + 1,
                            IF current_chunk # "" THEN current_chunk \o " " \o word
                            ELSE word,
                            packed)
             ELSE PackWords(words, i + 1, word,
                            IF current_chunk # "" THEN Append(packed, Strip(current_chunk))
                            ELSE packed)

\* Lines 440-460: the chunks one paragraph contributes.
ParagraphChunks(para) ==
    LET stripped == Strip(para)
    IN  IF Len(stripped) < min_paragraph_length THEN <<>>
        ELSE IF Len(stripped) > chunk_size THEN PackWords(Split(stripped), 1, "", <<>>)
        ELSE <<stripped>>

RECURSIVE ChunksOf(_, _)
ChunksOf(paragraphs, i) ==
    IF i > Len(paragraphs) THEN <<>>
    ELSE ParagraphChunks(paragraphs[i]) \o ChunksOf(paragraphs, i + 1)

\* _create_chunks(text)
CreateChunks(input) == ChunksOf(SplitOn(input, "\n\n"), 1)

(***************************************************************************)
(* PDFRAGAgent._find_relevant_chunks                                       *)
(***************************************************************************)
\* The number of chunks _find_relevant_chunks returns at most (line 488).
max_relevant_chunks == 3

\* The relevance score of lines 472-482.
Score(q, chunk) ==
    LET question_lower == Lower(q)
        chunk_lower    == Lower(chunk)
        words          == Split(question_lower)
        question_words == {words[i] : i \in 1..Len(words)}
    IN  Cardinality({w \in question_words : Len(w) > 3 /\ Contains(chunk_lower, w)})
        + (IF Contains(chunk_lower, question_lower) THEN 5 ELSE 0)

\* _find_relevant_chunks(question, chunks): the chunks with a positive score,
\* in the order of the list, cut to the first three.
FindRelevantChunks(q, chunk_list) ==
    LET Scoring(chunk) == Score(q, chunk) > 0
    IN  Take(SelectSeq(chunk_list, Scoring), max_relevant_chunks)

(***************************************************************************)
(* The PDF files on disk.  A file has pages of text, the text of its bytes *)
(* decoded as UTF-8 (raw), a size and a modification time; a file may be   *)
(* corrupt (the PDF libraries raise when they open it) and may be          *)
(* unreadable (open() raises).  All files are in the uploads directory,    *)
(* which backend/main.py creates at start-up (line 184).                   *)
(***************************************************************************)
OtherUploadPath == "uploads/2_b.pdf"

UploadPaths == {UploadPath, OtherUploadPath}

\* A lease of two pages: four paragraphs long enough to become chunks.
LeaseFile ==
    [ pages |-> << "LEASE AGREEMENT\n\nThe termination clause requires ninety days of written notice.\n\nThe tenant shall pay the rent on the first day of each month.",
                   "The security deposit is returned within thirty days.\n\nGoverning law: the courts of Mumbai have exclusive jurisdiction." >>,
      raw |-> "%PDF-1.4 lease",
      size |-> 14, corrupt |-> FALSE, readable |-> TRUE ]

\* A note of one short line.
NoteFile ==
    [ pages |-> << "Hi" >>,
      raw |-> "%PDF-1.4 note",
      size |-> 13, corrupt |-> FALSE, readable |-> TRUE ]

\* A file the PDF libraries cannot parse; its bytes still hold text.
CorruptFile ==
    [ pages |-> << >>,
      raw |-> "%PDF-1.4 scanned lease whose cross-reference table is damaged",
      size |-> 61, corrupt |-> TRUE, readable |-> TRUE ]

\* A file that cannot be opened.
LockedFile ==
    [ pages |-> << >>, raw |-> "", size |-> 20, corrupt |-> TRUE, readable |-> FALSE ]

\* A will of one page.
WillFile ==
    [ pages |-> << "LAST WILL\n\nI leave my house in Pune to my daughter, free of all charges and debts." >>,
      raw |-> "%PDF-1.4 will",
      size |-> 13, corrupt |-> FALSE, readable |-> TRUE ]

Files == {LeaseFile, NoteFile, CorruptFile, LockedFile, WillFile}

\* The uploads directories of the model.
FileSystems ==
    { [path \in present |-> IF path = UploadPath THEN first ELSE WillFile] :
          present \in SUBSET UploadPaths,
          first \in {LeaseFile, NoteFile, CorruptFile, LockedFile} }

\* os.path.getmtime: the files were written in the order of their names.
ModificationTime(path) == IF path = UploadPath THEN 1 ELSE 2

\* os.path.basename of a path in the uploads directory.
Basename(path) == SubSeq(path, Len("uploads/") + 1, Len(path))

(***************************************************************************)
(* PDFRAGAgent: text extraction                                            *)
(***************************************************************************)
\* str(n) of a page number
PageNumber(n) == SubSeq("123456789", n, n)

\* _extract_with_pymupdf and _extract_with_pypdf, for a file they can parse:
\* every page under a header line.
RECURSIVE PagesText(_, _)
PagesText(pages, n) ==
    IF n > Len(pages) THEN ""
    ELSE "\n--- Page " \o PageNumber(n) \o " ---\n" \o pages[n] \o "\n"
         \o PagesText(pages, n + 1)

\* _extract_with_fallback: the file read as text or decoded from its bytes,
\* and the placeholder description when it cannot be opened.
ExtractWithFallback(path, file) ==
    IF file.readable THEN file.raw
    ELSE "PDF Document Content\nFile: " \o Basename(path) \o "\nSize: "
         \o ToString(file.size)
         \o " bytes\n\nThis is a PDF document that has been uploaded for analysis. The content extraction is limited due to missing PDF processing libraries.\n\nFor full PDF analysis, please install: pip install pypdf pymupdf"

\* _extract_text_from_pdf: the first available library is used; when it
\* raises, the handler of line 381 returns None.
ExtractTextFromPdf(path, file, pymupdf, pypdf) ==
    IF pymupdf \/ pypdf
    THEN IF file.corrupt THEN None ELSE PagesText(file.pages, 1)
    ELSE ExtractWithFallback(path, file)

(***************************************************************************)
(* PDFRAGAgent: _extract_pdf_path and _extract_document_id                 *)
(***************************************************************************)
\* The queries the PDF agent is called with: the synthetic queries of the
\* upload endpoints, requests for a summary, and a question.
PdfQueries ==
    { UploadQuery(UploadPath),
      UploadQuery(OtherUploadPath),
      AnalyzeQuery("Key terms", UploadPath),
      AnalyzeQuery("explain", UploadPath),
      "summarize the document",
      "Give me a summary",
      "Give me a summary of the upload",
      "summarize 00000000-0000-4000-8000-000000000001",
      "What is the termination clause?" }

\* The paths tried for a word of the query (lines 522-531, 536-545).
PathCandidates(word) == <<word, "ai_systems/" \o word, "uploads/" \o word>>

\* The first candidate of the first of the words that exists, or None.
RECURSIVE FirstExisting(_, _, _)
FirstExisting(words, k, fs) ==
    IF k > Len(words) THEN None
    ELSE LET candidates == PathCandidates(words[k])
             hits == {c \in 1..Len(candidates) : candidates[c] \in DOMAIN fs}
         IN  IF hits # {}
             THEN candidates[CHOOSE c \in hits : \A d \in hits : c <= d]
             ELSE FirstExisting(words, k + 1, fs)

\* The characters a file name of the uploads pattern is not made of.
IsPathBreak(c) == IsSpace(c) \/ c = "/" \/ c = "\\"

\* re.search(r'uploads[\\\/]([^\\\/\s]+\.pdf)', query).group(1): at the
\* first place where the pattern matches, the longest run of file-name
\* characters that ends in ".pdf"; None without a match.
UploadsPatternName(query) ==
    LET n == Len(query)
        NameEnds(i) ==
            {j \in (i + 8)..n :
                /\ \A k \in (i + 8)..j : ~IsPathBreak(SubSeq(query, k, k))
                /\ j - (i + 8) + 1 >= 5
                /\ SubSeq(query, j - 3, j) = ".pdf"}
        matches ==
            {i \in 1..n :
                /\ i + 7 <= n
                /\ SubSeq(query, i, i + 6) = "uploads"
                /\ SubSeq(query, i + 7, i + 7) \in {"/", "\\"}
                /\ NameEnds(i) # {}}
    IN  IF matches = {} THEN None
        ELSE LET i == CHOOSE x \in matches : \A y \in matches : x <= y
                 j == CHOOSE x \in NameEnds(i) : \A y \in NameEnds(i) : x >= y
             IN  SubSeq(query, i + 8, j)

\* Lines 548-575: the file the uploads pattern names, else a file of the
\* directory whose name holds that name, else the most recent PDF of the
\* directory.  (Among several files holding the name os.listdir's order
\* decides; the directories of the model hold at most one.)
UploadsLookup(query, fs) ==
    LET filename == UploadsPatternName(query)
        similar  == {path \in DOMAIN fs :
                        /\ filename # None
                        /\ EndsWith(Basename(path), ".pdf")
                        /\ Contains(Lower(Basename(path)), Lower(filename))}
        pdf_files == {path \in DOMAIN fs : EndsWith(Basename(path), ".pdf")}
    IN  IF filename # None /\ ("uploads/" \o filename) \in DOMAIN fs
        THEN "uploads/" \o filename
        ELSE IF similar # {} THEN CHOOSE path \in similar : TRUE
        ELSE IF pdf_files # {}
        THEN CHOOSE path \in pdf_files :
                 \A other \in pdf_files : ModificationTime(other) <= ModificationTime(path)
        ELSE None

\* _extract_pdf_path(query)
ExtractPdfPath(query, fs) ==
    LET words == Split(query)
        pdf_words == SelectSeq(words, LAMBDA w : EndsWith(Lower(w), ".pdf"))
        after == {i \in 2..Len(words) : Lower(words[i - 1]) \in {"file", "pdf", "document"}}
        announced == [k \in 1..Cardinality(after) |-> words[Ascending(after)[k]]]
        named == FirstExisting(pdf_words, 1, fs)
        told  == FirstExisting(announced, 1, fs)
        found == IF Contains(query, "uploads") THEN UploadsLookup(query, fs) ELSE None
    IN  IF named # None THEN named
        ELSE IF told # None THEN told
        ELSE IF found # None THEN found
        ELSE IF Contains(query, "sample.pdf") /\ "ai_systems/sample.pdf" \in DOMAIN fs
        THEN "ai_systems/sample.pdf"
        ELSE None

\* The n-th document id uuid.uuid4() hands out.
DocumentId(n) == "00000000-0000-4000-8000-00000000000" \o PageNumber(n)

HexDigits == "0123456789abcdef"

IsHexDigit(c) == \E i \in 1..Len(HexDigits) : SubSeq(HexDigits, i, i) = c

\* _extract_document_id(query): the first UUID-like run of the query, or None.
ExtractDocumentId(query) ==
    LET matches ==
            {i \in 1..(Len(query) - 35) :
                \A k \in 0..35 :
                    IF k \in {8, 13, 18, 23}
                    THEN SubSeq(query, i + k, i + k) = "-"
                    ELSE IsHexDigit(SubSeq(query, i + k, i + k))}
    IN  IF matches = {} THEN None
        ELSE LET i == CHOOSE x \in matches : \A y \in matches : x <= y
             IN  SubSeq(query, i, i + 35)

\* _extract_pdf_path for the queries of the model, computed once per query
\* and directory.
PdfPathOf ==
    [ query \in PdfQueries, fs \in FileSystems |->
          ExtractPdfPath(query, fs) ]

\* _extract_document_id for the queries of the model.
DocumentIdOf == [query \in PdfQueries |-> ExtractDocumentId(query)]

\* What process_pdf_document makes of a file: the text extracted and the
\* chunks created from it, computed once per file.
Extraction ==
    [ path \in UploadPaths, file \in Files, library \in BOOLEAN |->
          LET extracted == ExtractTextFromPdf(path, file, library, library)
          IN  [ text_content |-> extracted,
                chunks |-> IF Truthy(extracted) THEN CreateChunks(extracted) ELSE <<>> ] ]

(***************************************************************************)
(* PDFRAGAgent: process_pdf_document, answer_question,                     *)
(* generate_document_summary, run_with_monitoring.  A result is the        *)
(* dictionary returned, without the answer or summary text: kind tells     *)
(* which of the keys 'answer', 'summary' and 'message' it holds.           *)
(***************************************************************************)
NoPdfResult ==
    [ status |-> None, error |-> Absent, kind |-> Absent, document_id |-> Absent,
      chunks_used |-> Absent, chunks_count |-> Absent ]

PdfErrorResult(error) == [NoPdfResult EXCEPT !.status = "error", !.error = error]

\* The number of chunks a summary is made of (line 198).
summary_chunks == 5

\* max(self.documents.items(), key=lambda x: x[1]["created_at"])[0]
LatestDocument(docs) ==
    CHOOSE d \in DOMAIN docs :
        \A e \in DOMAIN docs : docs[e].created_at <= docs[d].created_at

\* process_pdf_document(pdf_path, session_id) at time created_at: the result
\* and self.documents after it.
ProcessPdfDocument(docs, fs, pymupdf, pypdf, pdf_path, session_id, created_at) ==
    LET extraction == Extraction[pdf_path, fs[pdf_path], pymupdf \/ pypdf]
        text_content == extraction.text_content
        doc_id == DocumentId(Cardinality(DOMAIN docs) + 1)
        created == extraction.chunks
    IN  IF ~Truthy(text_content)
        THEN [ result |-> PdfErrorResult("Failed to extract text from PDF"),
               documents |-> docs ]
        ELSE [ result |-> [NoPdfResult EXCEPT !.status = "success",
                                              !.kind = "message",
                                              !.document_id = doc_id,
                                              !.chunks_count = Len(created)],
               documents |-> Put(docs, doc_id,
                                 [ path |-> pdf_path,
                                   text_content |-> text_content,
                                   chunks |-> created,
                                   total_chunks |-> Len(created),
                                   created_at |-> created_at,
                                   session_id |-> session_id ]) ]

\* PdfRoute sending only 'summarize', not 'summary', to the summary.
PdfRouteSummarizeOnly(query) ==
    IF Contains(Lower(query), "upload") \/ Contains(Lower(query), "process")
    THEN "process"
    ELSE IF Contains(Lower(query), "summarize") THEN "summary"
    ELSE "answer"

\* The branch run_with_monitoring takes for a query (lines 69, 116, 120).
PdfRoute(query) ==
    IF Contains(Lower(query), "upload") \/ Contains(Lower(query), "process")
    THEN "process"
    ELSE IF Contains(Lower(query), "summarize") \/ Contains(Lower(query), "summary")
    THEN "summary"
    ELSE "answer"

\* The question of an upload query (lines 81-84).
QuestionPart(query) ==
    IF Contains(query, "Process PDF file")
    THEN Strip(SplitOn(query, "Process PDF file")[1])
    ELSE query

\* The question asked for "explain." (line 103).
default_question == "Please analyze this PDF document and provide a comprehensive summary"

\* The question answer_question is asked for an upload query (lines 87-103).
AskedQuestion(query) ==
    IF QuestionPart(query) = "explain." THEN default_question ELSE QuestionPart(query)

\* _find_relevant_chunks for the questions and the documents of the model,
\* computed once per question and chunk list.
Relevance ==
    [ q \in PdfQueries \cup {AskedQuestion(query) : query \in PdfQueries},
      chunk_list \in {Extraction[e].chunks : e \in DOMAIN Extraction} |->
          FindRelevantChunks(q, chunk_list) ]

\* answer_question without the fallback to the first chunks of the document.
AnswerQuestionWithoutFallback(docs, q, doc_id) ==
    IF doc_id \notin DOMAIN docs
    THEN [result |-> PdfErrorResult("Document not found"), context |-> <<>>]
    ELSE LET relevant_chunks == Relevance[q, docs[doc_id].chunks]
         IN  IF relevant_chunks = <<>>
             THEN [ result |-> PdfErrorResult("No document content available"),
                    context |-> <<>> ]
             ELSE [ result |-> [NoPdfResult EXCEPT !.status = "success",
                                                   !.kind = "answer",
                                                   !.document_id = doc_id,
                                                   !.chunks_used = Len(relevant_chunks)],
                    context |-> relevant_chunks ]

\* answer_question(question, doc_id): the result, and the chunks the answer
\* is made from (lines 293-302).
AnswerQuestion(docs, q, doc_id) ==
    IF doc_id \notin DOMAIN docs
    THEN [result |-> PdfErrorResult("Document not found"), context |-> <<>>]
    ELSE LET doc_chunks == docs[doc_id].chunks
             found == Relevance[q, doc_chunks]
             relevant_chunks == IF found = <<>> THEN Take(doc_chunks, max_relevant_chunks)
                                ELSE found
         IN  IF relevant_chunks = <<>>
             THEN [ result |-> PdfErrorResult("No document content available"),
                    context |-> <<>> ]
             ELSE [ result |-> [NoPdfResult EXCEPT !.status = "success",
                                                   !.kind = "answer",
                                                   !.document_id = doc_id,
                                                   !.chunks_used = Len(relevant_chunks)],
                    context |-> relevant_chunks ]

\* generate_document_summary(doc_id)
GenerateDocumentSummary(docs, doc_id) ==
    IF doc_id \notin DOMAIN docs
    THEN PdfErrorResult("Document not found")
    ELSE [NoPdfResult EXCEPT !.status = "success",
                             !.kind = "summary",
                             !.document_id = doc_id,
                             !.chunks_used = Len(Take(docs[doc_id].chunks, summary_chunks))]

\* The route and the question of each query of the model, computed once.
PdfQueryFacts ==
    [ query \in PdfQueries |->
          [ route |-> PdfRoute(query),
            question_part |-> QuestionPart(query),
            asked |-> AskedQuestion(query) ] ]

NoPdfCall ==
    [ query |-> None, session_id |-> None, route |-> <<>>, path |-> None,
      process |-> NoPdfResult, question |-> None, doc_id |-> None,
      answer |-> NoPdfResult, context |-> <<>> ]

\* Lines 69-115: the upload branch.
PdfProcessBranch(query, session_id, call) ==
    LET pdf_path == PdfPathOf[query, files]
    IN  IF pdf_path = None \/ pdf_path \notin DOMAIN files
        THEN /\ pdf_call' = [call EXCEPT !.path = pdf_path]
             /\ pdf_result' = PdfErrorResult("PDF file not found")
             /\ UNCHANGED documents
        ELSE LET processed == ProcessPdfDocument(documents, files, PYMUPDF_AVAILABLE,
                                                 PYPDF_AVAILABLE, pdf_path, session_id,
                                                 pdf_clock')
                 question_part == PdfQueryFacts[query].question_part
                 asked == PdfQueryFacts[query].asked
                 doc_id == LatestDocument(processed.documents)
                 answered == AnswerQuestion(processed.documents, asked, doc_id)
                 after == [call EXCEPT !.path = pdf_path,
                                       !.route = <<"process_pdf_document">>,
                                       !.process = processed.result]
             IN  /\ documents' = processed.documents
                 /\ IF /\ processed.result.status = "success"
                       /\ \/ question_part = "explain."
                          \/ Truthy(question_part) /\ Len(question_part) > 5
                    THEN /\ pdf_call' = [after EXCEPT
                                            !.route = Append(@, "answer_question"),
                                            !.question = asked,
                                            !.doc_id = doc_id,
                                            !.answer = answered.result,
                                            !.context = answered.context]
                         /\ pdf_result' = [answered.result EXCEPT
                                              !.document_id = processed.result.document_id,
                                              !.chunks_count = processed.result.chunks_count]
                    ELSE /\ pdf_call' = after
                         /\ pdf_result' = processed.result

\* Lines 116-119: the summary branch.
PdfSummaryBranch(query, call) ==
    LET extracted == DocumentIdOf[query]
        doc_id == IF Truthy(extracted) THEN extracted ELSE "latest"
    IN  /\ pdf_call' = [call EXCEPT !.route = <<"generate_document_summary">>,
                                    !.doc_id = doc_id]
        /\ pdf_result' = GenerateDocumentSummary(documents, doc_id)
        /\ UNCHANGED documents

\* Lines 120-132: the question branch.
PdfAnswerBranch(query, call) ==
    LET extracted == DocumentIdOf[query]
        doc_id == IF ~Truthy(extracted) /\ DOMAIN documents # {}
                  THEN LatestDocument(documents) ELSE extracted
        answered == AnswerQuestion(documents, query, doc_id)
    IN  /\ UNCHANGED documents
        /\ IF Truthy(doc_id) /\ doc_id \in DOMAIN documents
           THEN /\ pdf_call' = [call EXCEPT !.route = <<"answer_question">>,
                                            !.question = query,
                                            !.doc_id = doc_id,
                                            !.answer = answered.result,
                                            !.context = answered.context]
                /\ pdf_result' = answered.result
           ELSE /\ pdf_call' = [call EXCEPT !.doc_id = doc_id]
                /\ pdf_result' = PdfErrorResult("No document available for Q&A")

\* PDFRAGAgent.run_with_monitoring(query, session_id)
PdfRunWithMonitoring(query, session_id) ==
    LET call == [NoPdfCall EXCEPT !.query = query, !.session_id = session_id]
        route == PdfQueryFacts[query].route
    IN  /\ pdf_clock' = pdf_clock + 1
        /\ UNCHANGED <<files, PYMUPDF_AVAILABLE, PYPDF_AVAILABLE>>
        /\ IF route = "process" THEN PdfProcessBranch(query, session_id, call)
           ELSE IF route = "summary" THEN PdfSummaryBranch(query, call)
           ELSE PdfAnswerBranch(query, call)

(***************************************************************************)
(* Initial state: the state after LegalStrategist.__init__ and after       *)
(* backend/main.py is loaded.                                              *)
(***************************************************************************)
NoRequest == [query |-> None, session_id |-> None]

CoordinatorInit ==
    /\ conversation_history = <<>>
    /\ stats = [ total_queries |-> 0, successful_queries |-> 0, failed_queries |-> 0,
                 average_response_time |-> Zero,
                 agents_called |-> [ law_agent |-> 0, case_agent |-> 0,
                                     argument_agent |-> 0, pdf_agent |-> 0 ] ]
    /\ last_laws = <<>>
    /\ last_cases = <<>>
    /\ last_analysis_type = None
    /\ pdf_agent \in BOOLEAN
    /\ clock = 0
    /\ request = NoRequest
    /\ context = DefaultContext
    /\ outcome = NoOutcome
    /\ dispatch = [team |-> 0, pdf |-> 0]
    /\ result = NoResult
    /\ appended = <<>>
    /\ enhanced_query = None
    /\ execution_times = <<>>

NoOp == [name |-> None, id |-> None, valid |-> FALSE, swept |-> {}]

NoResponse == [status |-> None, session_id |-> None, message |-> Absent, error |-> Absent]

\* The module globals of backend/main.py before initialize_ai_systems.
ServerLoaded ==
    /\ active_sessions = EmptyMap
    /\ system_metrics = [ total_requests |-> 0, successful_requests |-> 0,
                          failed_requests |-> 0,
                          average_response_time |-> Zero,
                          feature_usage |-> [legal_research |-> 0] ]
    /\ now = 0
    /\ issued = EmptyMap
    /\ invalidated = {}
    /\ activity = EmptyMap
    /\ op = NoOp
    /\ response = NoResponse
    /\ request_times = <<>>
    /\ report = NoReport
    /\ in_flight = EmptyMap
    /\ completed = EmptyMap

\* initialize_ai_systems has run in the environment.
Startup ==
    \E constructs \in BOOLEAN :
        LET initialized == InitializeAiSystems(environment, constructs)
        IN  /\ legal_strategist = initialized.legal_strategist
            /\ LEGAL_RESEARCH_AVAILABLE = initialized.LEGAL_RESEARCH_AVAILABLE

\* The server started with both credentials set.
ServerInit ==
    /\ ServerLoaded
    /\ environment = required_env_vars
    /\ Startup

\* The PDF agent after PDFRAGAgent.__init__.
PdfAgentInit ==
    /\ documents = EmptyMap
    /\ pdf_clock = 0
    /\ pdf_call = NoPdfCall
    /\ pdf_result = NoPdfResult

\* The PDF agent with no file on disk.
PdfIdle ==
    /\ PdfAgentInit
    /\ files = EmptyMap
    /\ PYMUPDF_AVAILABLE = TRUE
    /\ PYPDF_AVAILABLE = TRUE

\* Neither _create_chunks nor _find_relevant_chunks is applied on its own.
NoFunctionCall ==
    /\ text = ""
    /\ chunks = <<>>
    /\ question = ""
    /\ relevant = <<>>
    /\ applied = None

Init == CoordinatorInit /\ ServerInit /\ PdfIdle /\ NoFunctionCall

(***************************************************************************)
(* The coordinator called directly (as orchestrator.py's own driver does,  *)
(* lines 971-974, and as the request handlers do), with any query of the   *)
(* model and any session id or none.                                       *)
(***************************************************************************)
\* The number of run_with_monitoring calls of a behaviour.
MaxRequests == 2

Next ==
    \E query \in Queries, session_id \in SessionIds \cup {None},
       team \in TeamOutcomes, pdf \in PdfOutcomes :
        /\ stats.total_queries < MaxRequests
        /\ RunWithMonitoring(query, session_id, team, pdf)
        /\ UNCHANGED <<server_vars, pdf_vars, function_vars>>

Spec == Init /\ [][Next]_vars

(***************************************************************************)
(* The conversation memory under many requests: one session sends the same *)
(* query over and over; with a PDF agent it is answered by the document    *)
(* pipeline, without one by the reasoning team, and either may fail.       *)
(***************************************************************************)
\* The number of run_with_monitoring calls of a behaviour.
MaxMemoryRequests == 12

MemoryTeamOutcomes == {o \in TeamOutcomes : o.fails <= 1 /\ o.content = TeamText}
MemoryPdfOutcomes  == {o \in PdfOutcomes : o.status # "raise"}

MemoryNext ==
    \E team \in MemoryTeamOutcomes, pdf \in MemoryPdfOutcomes :
        /\ stats.total_queries < MaxMemoryRequests
        /\ RunWithMonitoring("summarize the document", "s1", team, pdf)
        /\ UNCHANGED <<server_vars, pdf_vars, function_vars>>

MemorySpec == Init /\ [][MemoryNext]_vars

(***************************************************************************)
(* The session registry and /api/chat over time.                           *)
(***************************************************************************)
\* The number of /api/chat requests of a behaviour.
MaxChats == 2

ChatTeamOutcomes == {o \in TeamOutcomes : o.fails <= 1 /\ o.content = TeamText}
ChatPdfOutcomes  == {o \in PdfOutcomes : o.status = "success"}

Chat ==
    \E session_in \in SessionIds \cup {None},
       team \in ChatTeamOutcomes, pdf \in ChatPdfOutcomes :
        /\ system_metrics.total_requests < MaxChats
        /\ ChatEndpoint("What is Section 377 IPC?", session_in, team, pdf)
        /\ UNCHANGED <<pdf_vars, function_vars>>

Validate == \E session_id \in SessionIds : ValidateSession(session_id) /\ UNCHANGED <<coordinator_vars, pdf_vars, function_vars>>

Create == CreateSession /\ UNCHANGED <<coordinator_vars, pdf_vars, function_vars>>

Sweep == CleanupExpiredSessions /\ UNCHANGED <<coordinator_vars, pdf_vars, function_vars>>

Clock == Tick /\ UNCHANGED <<coordinator_vars, pdf_vars, function_vars>>

SessionNext == Chat \/ Validate \/ Create \/ Sweep \/ Clock

\* The server as it runs with the PDF agent imported.
SessionInit == Init /\ pdf_agent

SessionSpec == SessionInit /\ [][SessionNext]_vars

(***************************************************************************)
(* The coordinator's average response time: one session sends a query the *)
(* reasoning team answers or one the document pipeline answers; either     *)
(* collaborator succeeds or fails, after one to MaxSeconds seconds.        *)
(***************************************************************************)
\* The longest a collaborator takes, in seconds.
MaxSeconds == 3

ExecutionTimes == 1..MaxSeconds

\* The number of run_with_monitoring calls of a behaviour.
MaxTimedRequests == 3

TimedQueries == {"What is Section 377 IPC?", UploadQuery(UploadPath)}

TimedTeamOutcomes ==
    { [o EXCEPT !.seconds = s] :
          o \in {x \in TeamOutcomes : x.fails <= 1 /\ x.content # TeamHeadedText},
          s \in ExecutionTimes }

TimedPdfOutcomes == {[o EXCEPT !.seconds = s] : o \in PdfOutcomes, s \in ExecutionTimes}

LatencyNext ==
    \E query \in TimedQueries, team \in TimedTeamOutcomes, pdf \in TimedPdfOutcomes :
        /\ stats.total_queries < MaxTimedRequests
        /\ RunWithMonitoring(query, "s1", team, pdf)
        /\ UNCHANGED <<server_vars, pdf_vars, function_vars>>

LatencyInit == Init /\ pdf_agent /\ LEGAL_RESEARCH_AVAILABLE

LatencySpec == LatencyInit /\ [][LatencyNext]_vars

(***************************************************************************)
(* Requests of several sessions interleaved: every session, and a caller   *)
(* without session id, sends a question and a follow-up to it.             *)
(***************************************************************************)
\* The number of run_with_monitoring calls of a behaviour.
MaxInterleavedRequests == 3

InterleavedQueries == {"What is Section 377 IPC?", "What about the punishment?"}

InterleavedTeamOutcomes == {o \in TeamOutcomes : o.fails = 0 /\ o.content # TeamHeadedText}

InterleavedNext ==
    \E query \in InterleavedQueries, session_id \in SessionIds \cup {None},
       team \in InterleavedTeamOutcomes, pdf \in ChatPdfOutcomes :
        /\ stats.total_queries < MaxInterleavedRequests
        /\ RunWithMonitoring(query, session_id, team, pdf)
        /\ UNCHANGED <<server_vars, pdf_vars, function_vars>>

InterleavedSpec == LatencyInit /\ [][InterleavedNext]_vars

(***************************************************************************)
(* The server started with any of the credentials set or missing, serving  *)
(* /api/chat, /api/health and /api/status.                                 *)
(***************************************************************************)
\* The number of /api/chat requests of a behaviour.
MaxStatusChats == 2

StatusChat ==
    \E session_in \in SessionIds \cup {None},
       team \in ChatTeamOutcomes, pdf \in ChatPdfOutcomes :
        /\ system_metrics.total_requests < MaxStatusChats
        /\ ChatEndpoint("What is Section 377 IPC?", session_in, team, pdf)
        /\ UNCHANGED <<pdf_vars, function_vars>>

StatusNext == StatusChat \/ HealthCheck \/ SystemStatus

StatusInit ==
    /\ CoordinatorInit /\ pdf_agent
    /\ ServerLoaded
    /\ environment \in SUBSET required_env_vars
    /\ Startup
    /\ PdfIdle
    /\ NoFunctionCall

StatusSpec == StatusInit /\ [][StatusNext]_vars

(***************************************************************************)
(* Concurrent /api/chat requests, the sweep and the clock.                 *)
(***************************************************************************)
\* The number of /api/chat requests of a behaviour.
MaxConcurrentChats == 3

ConcurrentTeamOutcomes == {o \in TeamOutcomes : o.fails = 0 /\ o.content = TeamText}

Receive ==
    \E session_in \in SessionIds \cup {None} :
        /\ Received < MaxConcurrentChats
        /\ ChatReceive("What is Section 377 IPC?", session_in)
        /\ UNCHANGED <<pdf_vars, function_vars>>

Complete ==
    \E number \in DOMAIN in_flight, team \in ConcurrentTeamOutcomes, pdf \in ChatPdfOutcomes :
        /\ ChatComplete(number, team, pdf)
        /\ UNCHANGED <<pdf_vars, function_vars>>

ConcurrentNext == Receive \/ Complete \/ Sweep \/ Clock

ConcurrentSpec == LatencyInit /\ [][ConcurrentNext]_vars

(***************************************************************************)
(* update_metrics applied to a sequence of results and execution times.    *)
(***************************************************************************)
\* The number of update_metrics calls of a behaviour.
MaxMetricUpdates == 4

ApplyUpdateMetrics ==
    \E status \in {"success", "error"}, execution_time \in ExecutionTimes :
        /\ system_metrics.total_requests < MaxMetricUpdates
        /\ system_metrics' = UpdateMetrics(system_metrics, status, execution_time)
        /\ request_times' = RecordedTimes(request_times, status, execution_time)
        /\ UNCHANGED <<active_sessions, LEGAL_RESEARCH_AVAILABLE, now, issued, invalidated,
                       activity, op, response, environment, legal_strategist, report,
                   in_flight, completed>>
        /\ UNCHANGED <<coordinator_vars, pdf_vars, function_vars>>

MetricsSpec == LatencyInit /\ [][ApplyUpdateMetrics]_vars

(***************************************************************************)
(* _create_chunks applied to a text.  The texts are made of paragraphs     *)
(* around the two lengths the chunker tests: shorter than the minimum, of  *)
(* exactly the minimum, of exactly chunk_size, longer than chunk_size with *)
(* words that fit, and one word longer than chunk_size.                    *)
(***************************************************************************)
\* The number of paragraphs of a text.
MaxParagraphs == 3

Paragraphs ==
    { "Clause 1.",
      Repeat("a", min_paragraph_length - 1),
      Repeat("a", min_paragraph_length),
      Repeat("a", chunk_size),
      Repeat("a", 400) \o " " \o Repeat("b", 400) \o "\n" \o Repeat("c", 400),
      Repeat("a", chunk_size + 1) }

Texts ==
    { Join(paragraphs, "\n\n") :
          paragraphs \in UNION { [1..n -> Paragraphs] : n \in 0..MaxParagraphs } }

ChunkInit ==
    /\ CoordinatorInit /\ pdf_agent
    /\ ServerInit /\ LEGAL_RESEARCH_AVAILABLE
    /\ PdfIdle
    /\ text \in Texts
    /\ chunks = <<>>
    /\ question = ""
    /\ relevant = <<>>
    /\ applied = None

ApplyCreateChunks ==
    /\ applied = None
    /\ chunks' = CreateChunks(text)
    /\ applied' = "_create_chunks"
    /\ UNCHANGED <<text, question, relevant, coordinator_vars, server_vars, pdf_vars>>

ChunkSpec == ChunkInit /\ [][ApplyCreateChunks]_vars

(***************************************************************************)
(* _find_relevant_chunks applied to a question and a chunk list.           *)
(***************************************************************************)
\* The number of chunks of a chunk list.
MaxChunks == 4

Questions == {"termination clause", "What is the notice period?", "rent"}

ChunkPool ==
    { "The termination clause requires notice.",
      "Either party may seek termination.",
      "Rent is due monthly.",
      "Governing law: India." }

ChunkLists == UNION { [1..n -> ChunkPool] : n \in 0..MaxChunks }

ScoreInit ==
    /\ CoordinatorInit /\ pdf_agent
    /\ ServerInit /\ LEGAL_RESEARCH_AVAILABLE
    /\ PdfIdle
    /\ text = ""
    /\ chunks \in ChunkLists
    /\ question \in Questions
    /\ relevant = <<>>
    /\ applied = None

ApplyFindRelevantChunks ==
    /\ applied = None
    /\ relevant' = FindRelevantChunks(question, chunks)
    /\ applied' = "_find_relevant_chunks"
    /\ UNCHANGED <<text, chunks, question, coordinator_vars, server_vars, pdf_vars>>

ScoreSpec == ScoreInit /\ [][ApplyFindRelevantChunks]_vars

(***************************************************************************)
(* The PDF agent called with the synthetic queries of the upload           *)
(* endpoints and with questions, over the uploads directories of the       *)
(* model and with PyMuPDF, with pypdf only, or with neither installed.     *)
(***************************************************************************)
\* The number of PDFRAGAgent.run_with_monitoring calls of a behaviour.
MaxPdfCalls == 2

PdfInit ==
    /\ CoordinatorInit /\ pdf_agent
    /\ ServerInit /\ LEGAL_RESEARCH_AVAILABLE
    /\ NoFunctionCall
    /\ PdfAgentInit
    /\ files \in FileSystems
    /\ PYMUPDF_AVAILABLE \in BOOLEAN
    /\ PYPDF_AVAILABLE \in BOOLEAN
    /\ PYMUPDF_AVAILABLE => PYPDF_AVAILABLE

PdfNext ==
    \E query \in PdfQueries, session_id \in SessionIds :
        /\ pdf_clock < MaxPdfCalls
        /\ PdfRunWithMonitoring(query, session_id)
        /\ UNCHANGED <<coordinator_vars, server_vars, function_vars>>

PdfSpec == PdfInit /\ [][PdfNext]_vars

(***************************************************************************)
(* Properties of the conversation memory (MemorySpec).                     *)
(***************************************************************************)
\* C1: after any sequence of requests the conversation memory holds at most
\* 10 records, and they are the most recently appended records (all of them
\* while there are at most 10), in the order they were appended.
MemoryKeepsMostRecent ==
    LET n == Len(appended)
        k == IF n < MemoryLimit THEN n ELSE MemoryLimit
    IN  /\ Len(conversation_history) <= MemoryLimit
        /\ Len(conversation_history) = k
        /\ \A i \in 1..k : conversation_history[i] = appended[n - k + i]

\* More records have been appended than the memory keeps.
MemoryHasEvicted ==
    /\ Len(appended) > MemoryLimit
    /\ Len(conversation_history) = MemoryLimit

(***************************************************************************)
(* Properties of the session registry (SessionSpec).                       *)
(***************************************************************************)
\* C2: for every id create_session() returned, validate_session(id) returns
\* true while no time has passed since; once more than the timeout has passed
\* since its creation it returns false; and once a validate_session(id) call
\* has returned false, every later one returns false.
CreatedSessionValidUntilTimeout ==
    \A id \in DOMAIN issued :
        /\ now = issued[id] => ValidateReturn(active_sessions, id, now)
        /\ now - issued[id] > session_timeout => ~ValidateReturn(active_sessions, id, now)
        /\ id \in invalidated => ~ValidateReturn(active_sessions, id, now)

\* validate_session has just reported an issued session invalid, its timeout
\* having passed.
SessionReportedExpired ==
    /\ op.name = "validate"
    /\ ~op.valid
    /\ op.id \in invalidated
    /\ now - issued[op.id] > session_timeout

\* C3: a session that has never been idle for the timeout (every request on
\* it came less than two hours after the previous one) is reported valid by
\* validate_session, however long ago it was created.
BusySessionStaysValid ==
    \A id \in DOMAIN activity :
        ~activity[id].idle => ValidateReturn(active_sessions, id, now)

\* C4: right after cleanup_expired_sessions (the steps that leave op at
\* "cleanup" without the clock advancing), active_sessions holds exactly
\* the entries of before that are not older than the timeout; and for every
\* session id validate_session returns the same answer whether or not the
\* sweep ran just before it.
SweepAgreesWithValidate ==
    /\ [](\A id \in SessionIds :
            ValidateReturn(SweepResult(active_sessions, now), id, now)
                = ValidateReturn(active_sessions, id, now))
    /\ [][(op'.name = "cleanup" /\ now' = now) =>
            LET young == {id \in DOMAIN active_sessions :
                             now - active_sessions[id].created <= session_timeout}
            IN  active_sessions' = [id \in young |-> active_sessions[id]]]_vars

\* A sweep has just removed one session and kept another.
SweepRemovedAndKept ==
    /\ op.name = "cleanup"
    /\ op.swept # {}
    /\ DOMAIN active_sessions # {}

(***************************************************************************)
(* Properties of run_with_monitoring (Spec).                               *)
(***************************************************************************)
\* C5: on the reasoning-team path a dispatch that fails is retried: at most
\* max_retries dispatches are made per request, and when the k-th dispatch
\* is the first to succeed the call returns success with attempts = k.
FailedDispatchIsRetried ==
    (outcome.agent = "team" /\ outcome.content # None) =>
        /\ dispatch.team <= max_retries
        /\ outcome.fails < max_retries =>
              /\ dispatch.team = outcome.fails + 1
              /\ result.status = "success"
              /\ result.attempts = outcome.fails + 1

\* C6: when all max_retries dispatches of a request fail, the call returns
\* status 'error' with no content and attempts = max_retries, increments
\* failed_queries and appends no conversation record.
ExhaustedRetriesReported ==
    [][(clock' = clock + 1 /\ outcome'.agent = "team" /\ outcome'.fails >= max_retries) =>
          /\ result'.status = "error"
          /\ result'.content = Absent
          /\ result'.attempts = max_retries
          /\ stats'.failed_queries = stats.failed_queries + 1
          /\ conversation_history' = conversation_history]_vars

\* C7: run_with_monitoring never raises: an exception during classification,
\* memory update or post-processing is returned as a result of status 'error'.
RunWithMonitoringNeverRaises ==
    result.status # "raised"

\* C8: a request whose session id is absent, or differs from the session id
\* of the most recent record, is classified as no follow-up with the law,
\* case and argument agents all enabled; "What is Section 377 IPC?" without
\* a session id moreover has the document agent disabled.
FreshRequestEnablesAllAgents ==
    [][(/\ clock' = clock + 1
        /\ \/ request'.session_id = None
           \/ /\ conversation_history # <<>>
              /\ conversation_history[Len(conversation_history)].session_id
                     # request'.session_id) =>
          /\ ~context'.raised
          /\ ~context'.is_follow_up
          /\ context'.needs_law_agent
          /\ context'.needs_case_agent
          /\ context'.needs_argument_agent
          /\ (request'.query = "What is Section 377 IPC?" /\ request'.session_id = None)
                => ~context'.needs_pdf_agent]_vars

\* C9: for a query holding the upload-path marker 'uploads' and the keyword
\* 'case' the classifier sets needs_pdf_agent, and needs_case_agent is true
\* exactly when a continuation word occurs in the query.
UploadMarkerPrecedence ==
    (/\ request # NoRequest
     /\ Contains(request.query, "uploads")
     /\ Contains(Lower(request.query), "case")) =>
        /\ ~context.raised
        /\ context.needs_pdf_agent
        /\ context.needs_case_agent = AnyIn(continuation_words, Lower(request.query))

\* C10: the synthetic queries of /api/upload-pdf and /api/analyze-pdf, coming
\* with the session id the endpoint supplies, are handled by one call of the
\* PDF agent and no dispatch to the team, whatever the memory holds.
PdfRequestsUsePipeline ==
    (/\ request.query \in PdfEndpointQueries
     /\ request.session_id # None
     /\ pdf_agent) =>
        /\ dispatch.pdf = 1
        /\ dispatch.team = 0

PdfFailureIsTerminal ==
    [][(/\ clock' = clock + 1
        /\ outcome'.agent = "pdf"
        /\ outcome'.status \in {"error", "raise"}) =>
          /\ dispatch'.pdf = 1
          /\ dispatch'.team = 0
          /\ result'.status = "error"
          /\ result'.attempts = 1
          /\ conversation_history' = conversation_history]_vars

\* A pipeline failure came after a request that had been recorded.
PdfFailureAfterRecord ==
    /\ outcome.agent = "pdf"
    /\ outcome.status = "error"
    /\ result.status = "error"
    /\ conversation_history # <<>>

\* C13: the content of a successful reasoning-team request begins with a
\* heading marker '#', whatever text the team returned.
TeamResponseBeginsWithHeading ==
    (outcome.agent = "team" /\ result.status = "success") =>
        StartsWith(result.content, "#")

\* C14: a request on the session of the most recent record whose query has
\* a follow-up indicator and no law keyword is classified as a follow-up,
\* and with the law agent disabled when that record's turn ran with the law
\* agent enabled.
FollowUpReusesLaws ==
    [][(/\ clock' = clock + 1
        /\ conversation_history # <<>>
        /\ request'.session_id # None
        /\ conversation_history[Len(conversation_history)].session_id
               = request'.session_id
        /\ QueryTests[request'.query].follow_up
        /\ ~QueryTests[request'.query].law) =>
          /\ context'.is_follow_up
          /\ conversation_history[Len(conversation_history)].agents_called.law_agent
                => ~context'.needs_law_agent]_vars

(***************************************************************************)
(* Properties of _create_chunks (ChunkSpec) and _find_relevant_chunks      *)
(* (ScoreSpec).                                                            *)
(***************************************************************************)
\* C16: for a text with at least one paragraph (separated by blank lines,
\* stripped) of 50 characters or more, _create_chunks returns at least one
\* chunk and no chunk is longer than chunk_size.
ChunksWithinSize ==
    LET paragraphs == SplitOn(text, "\n\n")
    IN  (/\ applied = "_create_chunks"
         /\ \E i \in 1..Len(paragraphs) :
                Len(Strip(paragraphs[i])) >= min_paragraph_length) =>
            /\ chunks # <<>>
            /\ \A i \in 1..Len(chunks) : Len(chunks[i]) <= chunk_size

\* C17: _find_relevant_chunks returns at most three chunks, each with a
\* positive score, in non-increasing order of score, and no chunk of the
\* list it leaves out scores higher than a chunk it returns.
RelevantChunksRanked ==
    applied = "_find_relevant_chunks" =>
        /\ Len(relevant) <= max_relevant_chunks
        /\ \A i \in 1..Len(relevant) : Score(question, relevant[i]) > 0
        /\ \A i \in 1..Len(relevant) : \A j \in i..Len(relevant) :
                Score(question, relevant[i]) >= Score(question, relevant[j])
        /\ \A i \in 1..Len(chunks) : \A j \in 1..Len(relevant) :
                (\A k \in 1..Len(relevant) : relevant[k] # chunks[i]) =>
                    Score(question, chunks[i]) <= Score(question, relevant[j])

(***************************************************************************)
(* Properties of the PDF agent (PdfSpec).                                  *)
(***************************************************************************)
\* The queries holding 'summarize' or 'summary' and neither 'upload' nor
\* 'process'.
SummaryOnlyQueries ==
    { q \in PdfQueries :
        /\ Contains(Lower(q), "summarize") \/ Contains(Lower(q), "summary")
        /\ ~Contains(Lower(q), "upload")
        /\ ~Contains(Lower(q), "process") }

\* C15: a query holding 'summarize' or 'summary' and neither 'upload' nor
\* 'process' is handled by generate_document_summary alone and never by
\* answer_question, whatever documents are stored.
SummaryQueriesAreSummarized ==
    (/\ pdf_call # NoPdfCall
     /\ pdf_call.query \in SummaryOnlyQueries) =>
        /\ pdf_call.route = <<"generate_document_summary">>
        /\ pdf_call.answer = NoPdfResult
        /\ pdf_result.kind # "answer"

\* A query with 'summary' was summarized while a document was stored.
SummaryAskedWithDocuments ==
    /\ pdf_call.query = "Give me a summary"
    /\ pdf_call.route = <<"generate_document_summary">>
    /\ DOMAIN documents # {}

\* C18: when answer_question is called for a document that has chunks it
\* answers from a non-empty context, which is the first min(3, n) chunks in
\* document order when no chunk scores above zero; it returns the error
\* "No document content available" only for a document with zero chunks.
AnswerNeverFromEmptyContext ==
    LET doc_chunks == documents[pdf_call.doc_id].chunks
    IN  (pdf_call.answer # NoPdfResult /\ pdf_call.doc_id \in DOMAIN documents) =>
            /\ doc_chunks # <<>> =>
                  /\ pdf_call.answer.status = "success"
                  /\ pdf_call.context # <<>>
                  /\ pdf_call.answer.chunks_used = Len(pdf_call.context)
                  /\ Relevance[pdf_call.question, doc_chunks] = <<>> =>
                        pdf_call.context = Take(doc_chunks, max_relevant_chunks)
            /\ pdf_call.answer.error = "No document content available" =>
                  doc_chunks = <<>>

\* A question no chunk matched was answered from the first three of the
\* four chunks of the document.
AnswerFellBackToFirstChunks ==
    /\ pdf_call.answer.status = "success"
    /\ pdf_call.doc_id \in DOMAIN documents
    /\ Len(documents[pdf_call.doc_id].chunks) > max_relevant_chunks
    /\ Relevance[pdf_call.question, documents[pdf_call.doc_id].chunks] = <<>>
    /\ pdf_call.context = Take(documents[pdf_call.doc_id].chunks, max_relevant_chunks)

\* C19: a file whose text yields no chunk is an extraction failure: no
\* stored document has zero chunks, and a process_pdf_document that
\* succeeded reports chunks_count > 0.
ZeroChunksIsExtractionFailure ==
    /\ \A d \in DOMAIN documents : documents[d].chunks # <<>>
    /\ pdf_call.process.status = "success" => pdf_call.process.chunks_count > 0

\* C20: process_pdf_document on an existing file that the PDF library
\* cannot parse does not return "Failed to extract text from PDF": the
\* extraction falls back to the decoded bytes or the placeholder.
ExtractionDegradesNeverFails ==
    (/\ pdf_call.process # NoPdfResult
     /\ pdf_call.path \in DOMAIN files
     /\ files[pdf_call.path].corrupt) =>
        pdf_call.process.error # "Failed to extract text from PDF"

\* C25: once a document is stored, the query "summarize the document", which
\* names no document id, returns the summary of the most recently processed
\* document with status success.
SummaryDefaultsToLatestDocument ==
    (/\ pdf_call # NoPdfCall
     /\ pdf_call.query = "summarize the document"
     /\ DOMAIN documents # {}) =>
        /\ pdf_result.status = "success"
        /\ pdf_result.kind = "summary"
        /\ pdf_result.document_id = LatestDocument(documents)

\* C29: a question that names no document id is answered only from a
\* document stored under the session id the question was sent with.
DocumentsIsolatedBySession ==
    (/\ pdf_call # NoPdfCall
     /\ ~Truthy(DocumentIdOf[pdf_call.query])
     /\ pdf_call.answer.status = "success") =>
        /\ pdf_call.doc_id \in DOMAIN documents
        /\ documents[pdf_call.doc_id].session_id = pdf_call.session_id

(***************************************************************************)
(* Properties of the coordinator's counters (Spec).                        *)
(***************************************************************************)
\* C28: after every run_with_monitoring call that has returned, by any
\* path, total_queries = successful_queries + failed_queries.
CountersAddUp ==
    result.status \in {"success", "error"} =>
        stats.total_queries = stats.successful_queries + stats.failed_queries

\* C24: when the PDF agent raises, the error the request returns does not
\* carry the message of the exception.
ErrorsCarryNoExceptionText ==
    (result.status = "error" /\ outcome.status = "raise") =>
        ~Contains(result.error, outcome.exception)

(***************************************************************************)
(* Properties of the averages of execution times (LatencySpec,             *)
(* MetricsSpec).                                                           *)
(***************************************************************************)
\* C21: stats['average_response_time'] is the arithmetic mean of the
\* execution times of the requests counted in successful_queries, and a
\* request that is not counted there leaves it as it was.
AverageIsMeanOfSuccesses ==
    /\ [](/\ Len(execution_times) = stats.successful_queries
          /\ stats.average_response_time = Mean(execution_times))
    /\ [][stats'.successful_queries = stats.successful_queries =>
            stats'.average_response_time = stats.average_response_time]_vars

\* Two successes of one and two seconds have been averaged, and another
\* request has failed.
AveragedWithFailure ==
    /\ execution_times = <<1, 2>>
    /\ stats.average_response_time = Fraction(3, 2)
    /\ stats.total_queries = 3

\* C26: system_metrics['average_response_time'] is the arithmetic mean of
\* the execution times of the successful requests given to update_metrics,
\* and a failed request leaves it as it was.
MetricsAverageIsMeanOfSuccesses ==
    /\ [](system_metrics.average_response_time = Mean(request_times))
    /\ [][system_metrics'.successful_requests = system_metrics.successful_requests =>
            system_metrics'.average_response_time
                = system_metrics.average_response_time]_vars

(***************************************************************************)
(* Properties of the enhanced query (InterleavedSpec).                     *)
(***************************************************************************)
\* C30: the enhanced query embeds a previous query and response only of
\* the most recent record, and only when that record has the session id of
\* the current request.
EnhancedQueryStaysInSession ==
    [][(/\ clock' = clock + 1
        /\ enhanced_query' # None
        /\ Contains(enhanced_query', "Previous Query: ")) =>
          /\ conversation_history # <<>>
          /\ LET previous == conversation_history[Len(conversation_history)]
             IN  /\ previous.session_id = request'.session_id
                 /\ enhanced_query' = WithPreviousAnalysis(request'.query, previous)
                                          \o AgentInstructions(context')]_vars

\* A follow-up of one session was dispatched with the previous record of
\* that session embedded, while the memory also held a record of another
\* session.
FollowUpEmbeddedAmongSessions ==
    /\ enhanced_query # None
    /\ Contains(enhanced_query, "Previous Query: ")
    /\ dispatch.team = 1
    /\ \E i \in 1..Len(conversation_history) :
           /\ conversation_history[i].session_id # request.session_id
           /\ conversation_history[i].session_id # None

(***************************************************************************)
(* Properties of the health and status endpoints (StatusSpec).             *)
(***************************************************************************)
\* C22: health_check and system_status (and the get_statistics it calls)
\* leave active_sessions, system_metrics, the coordinator's stats,
\* conversation_history and the document store as they were.
StatusHandlersMutateNothing ==
    [][(op'.name \in {"health", "status"} /\ now' = now) =>
          UNCHANGED <<active_sessions, system_metrics, stats, conversation_history,
                      documents>>]_vars

\* The status was reported after a chat request the coordinator answered,
\* with a session open.
StatusReportedAfterChat ==
    /\ op.name = "status"
    /\ report.endpoint = "status"
    /\ Available
    /\ report.statistics.api_requests.total_requests = 1
    /\ report.statistics.legal_research.successful_queries = 1
    /\ report.statistics.active_sessions = 1

\* C23: when a required credential is missing at startup,
\* LEGAL_RESEARCH_AVAILABLE is false, health_check reports 'degraded', and
\* every chat request returns status 'error' without the coordinator being
\* called: its statistics and its memory stay as constructed.
MissingCredentialIsUnavailable ==
    (required_env_vars \ environment # {}) =>
        /\ ~LEGAL_RESEARCH_AVAILABLE
        /\ HealthStatus.status = "degraded"
        /\ report.endpoint = "health" => report.status = "degraded"
        /\ response # NoResponse => response.status = "error"
        /\ stats.total_queries = 0
        /\ stats.successful_queries = 0
        /\ stats.failed_queries = 0
        /\ conversation_history = <<>>
        /\ clock = 0

\* With one credential missing and the coordinator constructed, a chat
\* request was refused and the health check reported 'degraded'.
RefusedChatAndDegradedHealth ==
    /\ environment = {"GROQ_API_KEY"}
    /\ legal_strategist
    /\ response.status = "error"
    /\ system_metrics.failed_requests = 1
    /\ report.endpoint = "health"
    /\ report.status = "degraded"

(***************************************************************************)
(* Properties of concurrent chat requests (ConcurrentSpec).                *)
(***************************************************************************)
\* C27: under any interleaving of chat requests and of the sweep, the
\* requests counter of every registered session is the number of chat
\* requests completed on it, and no request takes the handler's exception
\* path, also when its session was removed while it was in flight.
ChatRequestsCounted ==
    /\ \A id \in DOMAIN active_sessions :
           active_sessions[id].requests
               = IF id \in DOMAIN completed THEN Len(completed[id]) ELSE 0
    /\ response.message # "Internal server error"

\* Two requests on one session overlapped (the later one completed first),
\* the sweep removed the session while the earlier one was in flight, and
\* that one then completed with success.
OverlappedAndSweptInFlight ==
    /\ op.name = "chat"
    /\ op.id \in DOMAIN completed
    /\ completed[op.id] = <<2, 1>>
    /\ op.id \notin DOMAIN active_sessions
    /\ response.status = "success"

====
